---- MODULE Spec2Model ----
(***************************************************************************)
(* Model of cpp/src/io/parquet/parquet_reader.cpp: the host-side           *)
(* orchestration of read_parquet.  One behaviour is one call of            *)
(* read_parquet on one input (file bytes, parser result, caller args).     *)
(* Strings are TLA+ strings; pointers are records [buf, ofs] into `heap`.  *)
(***************************************************************************)
EXTENDS Integers, Sequences, FiniteSets, TLC

(***************************************************************************)
(* Bounds of the model.                                                    *)
(***************************************************************************)
\* rows of one row group
MaxRows == 2
\* allocation / copy / synchronize failures injected into one read
MaxFaults == 1
\* largest raw file size (bytes) enumerated for the envelope checks
MaxFileSize == 15

(***************************************************************************)
(* Program constants.                                                      *)
(***************************************************************************)
NUM_SUPPORTED_CODECS == 2
g_supportedCodecs == <<"GZIP", "SNAPPY">>
\* parquet.h: the magic word "PAR1", sizeof(file_header_s), sizeof(file_ender_s)
PARQUET_MAGIC == "PAR1"
SizeofFileHeader == 4
SizeofFileEnder == 8
\* sizeof(parquet::gpu::nvstrdesc_s): a (pointer, length) pair
SizeofStrDesc == 16
\* std::string::npos, with size_t scaled to 16 bits (all strings are short)
SizeMod == 2^16
npos == SizeMod - 1

NULL == [buf |-> 0, ofs |-> 0]
Ptr(b, o) == [buf |-> b, ofs |-> o]

Min(a, b) == IF a < b THEN a ELSE b
Max(a, b) == IF a > b THEN a ELSE b

RECURSIVE SumSeq(_)
SumSeq(s) == IF s = <<>> THEN 0 ELSE Head(s) + SumSeq(Tail(s))

(***************************************************************************)
(* std::string helpers used by get_index_col.                              *)
(***************************************************************************)
\* s.find(pat, pos): first position >= pos (0-based) where pat occurs, or npos
RECURSIVE StrFind(_, _, _)
StrFind(s, pat, pos) ==
  IF pos + Len(pat) > Len(s) THEN npos
  ELSE IF SubSeq(s, pos + 1, pos + Len(pat)) = pat THEN pos
  ELSE StrFind(s, pat, pos + 1)

\* s.substr(pos, n) for pos <= size(): n is clamped to the rest of the string
StrSubstr(s, pos, n) == SubSeq(s, pos + 1, Min(Len(s), pos + n))

\* to_dot_string: the path components joined with '.'
RECURSIVE to_dot_string_from(_, _, _)
to_dot_string_from(path, i, s) ==
  IF i > Len(path) THEN s
  ELSE to_dot_string_from(path, i + 1, s \o "." \o path[i])

to_dot_string(path_in_schema) ==
  to_dot_string_from(path_in_schema, 2,
                     IF Len(path_in_schema) > 0 THEN path_in_schema[1] ELSE "")

(***************************************************************************)
(* to_dtype: converted (logical) type first, then the physical type.       *)
(***************************************************************************)
to_dtype_flipped(physical, logical) ==
  CASE physical = "BOOLEAN" -> <<"GDF_INT8", "TIME_UNIT_NONE">>
    [] physical = "INT32" -> <<"GDF_INT32", "TIME_UNIT_NONE">>
    [] physical = "INT64" -> <<"GDF_INT64", "TIME_UNIT_NONE">>
    [] physical = "FLOAT" -> <<"GDF_FLOAT32", "TIME_UNIT_NONE">>
    [] physical = "DOUBLE" -> <<"GDF_FLOAT64", "TIME_UNIT_NONE">>
    [] physical \in {"BYTE_ARRAY", "FIXED_LEN_BYTE_ARRAY"} ->
         <<"GDF_STRING", "TIME_UNIT_NONE">>
    [] OTHER -> <<"GDF_invalid", "TIME_UNIT_NONE">>

to_dtype(physical, logical) ==
  CASE logical \in {"UINT_8", "INT_8"} -> <<"GDF_INT8", "TIME_UNIT_NONE">>
    [] logical \in {"UINT_16", "INT_16"} -> <<"GDF_INT16", "TIME_UNIT_NONE">>
    [] logical = "DATE" -> <<"GDF_DATE32", "TIME_UNIT_NONE">>
    [] logical = "TIMESTAMP_MILLIS" -> <<"GDF_DATE64", "TIME_UNIT_ms">>
    [] logical = "TIMESTAMP_MICROS" -> <<"GDF_DATE64", "TIME_UNIT_us">>
    [] OTHER ->
      CASE physical = "BOOLEAN" -> <<"GDF_INT8", "TIME_UNIT_NONE">>
        [] physical = "INT32" -> <<"GDF_INT32", "TIME_UNIT_NONE">>
        [] physical = "INT64" -> <<"GDF_INT64", "TIME_UNIT_NONE">>
        [] physical = "FLOAT" -> <<"GDF_FLOAT32", "TIME_UNIT_NONE">>
        [] physical = "DOUBLE" -> <<"GDF_FLOAT64", "TIME_UNIT_NONE">>
        [] physical \in {"BYTE_ARRAY", "FIXED_LEN_BYTE_ARRAY"} ->
             <<"GDF_STRING", "TIME_UNIT_NONE">>
        [] OTHER -> <<"GDF_invalid", "TIME_UNIT_NONE">>

(***************************************************************************)
(* get_index_col: the name between the brackets that follow                *)
(* "index_columns" in the value of the first "pandas" key.                 *)
(***************************************************************************)
RECURSIVE FindPandas(_, _)
FindPandas(kv, i) ==
  IF i > Len(kv) THEN 0
  ELSE IF kv[i].key = "pandas" THEN i
  ELSE FindPandas(kv, i + 1)

get_index_col(md) ==
  LET it == FindPandas(md.key_value_metadata, 1) IN
  IF it = 0 THEN ""
  ELSE
    LET value == md.key_value_metadata[it].value
        pos == StrFind(value, "index_columns", 0)
    IN
    IF pos = npos THEN ""
    ELSE
      LET begin == StrFind(value, "[", pos)
          end == StrFind(value, "]", begin)
      IN
      IF ((end - begin) % SizeMod) > 4
      THEN StrSubstr(value, begin + 2, (end - begin - 3) % SizeMod)
      ELSE ""

(***************************************************************************)
(* Inputs: the file (raw bytes, what the metadata parser makes of the      *)
(* footer, the page headers stored in each chunk) and the caller's args.   *)
(***************************************************************************)
SchemaElement(name, type, converted_type, max_def) ==
  [name |-> name, type |-> type, converted_type |-> converted_type,
   type_length |-> 0, max_definition_level |-> max_def,
   max_repetition_level |-> 0]

\* schema[0] is the root; column chunks name their element by schema_idx
TheSchema ==
  << SchemaElement("schema", "NONE", "NONE", 0),
     SchemaElement("a", "INT32", "NONE", 1),
     SchemaElement("b", "BYTE_ARRAY", "UTF8", 1),
     SchemaElement("idx", "INT64", "NONE", 0),
     SchemaElement("t", "INT96", "NONE", 1),
     SchemaElement("i", "INT32", "INT_16", 1) >>

\* page headers as stored in a chunk's bytes
DataPage(rows, compressed) ==
  [dict |-> FALSE, corrupt |-> FALSE, num_values |-> rows, num_rows |-> rows,
   uncompressed_page_size |-> 4 * rows,
   compressed_page_size |-> IF compressed THEN 2 * rows + 1 ELSE 4 * rows]

DictPage(entries, compressed) ==
  [dict |-> TRUE, corrupt |-> FALSE, num_values |-> entries, num_rows |-> 0,
   uncompressed_page_size |-> 3 * entries,
   compressed_page_size |-> IF compressed THEN entries + 1 ELSE 3 * entries]

DataPages(rows, compressed) ==
  IF rows >= 2
  THEN << DataPage(1, compressed), DataPage(rows - 1, compressed) >>
  ELSE << DataPage(rows, compressed) >>

RECURSIVE SumField(_, _)
SumField(pages, f) ==
  IF pages = <<>> THEN 0 ELSE Head(pages)[f] + SumField(Tail(pages), f)

\* a column chunk record of a row group, with the pages its bytes hold
ColumnChunk(path, schema_idx, codec, has_dict, rows, offset) ==
  LET compressed == codec # "UNCOMPRESSED"
      pages == (IF has_dict THEN << DictPage(2, compressed) >> ELSE << >>)
               \o DataPages(rows, compressed)
  IN [schema_idx |-> schema_idx,
      meta_data |->
        [path_in_schema |-> path, codec |-> codec,
         total_compressed_size |-> SumField(pages, "compressed_page_size"),
         num_values |-> rows,
         data_page_offset |-> IF has_dict THEN offset + 1 ELSE offset,
         dictionary_page_offset |-> IF has_dict THEN offset ELSE 0],
      pages |-> pages]

RowGroup(rows, cols) == [num_rows |-> rows, columns |-> cols]

RECURSIVE SumRows(_)
SumRows(rgs) == IF rgs = <<>> THEN 0 ELSE Head(rgs).num_rows + SumRows(Tail(rgs))

FileMetaData(kv, rgs) ==
  [num_rows |-> SumRows(rgs), key_value_metadata |-> kv,
   schema |-> TheSchema, row_groups |-> rgs]

NoKV == << >>
PandasKV(list) ==
  << [key |-> "created", value |-> "x"],
     [key |-> "pandas",
      value |-> "{\"index_columns\": [" \o list \o "], \"columns\": []}"] >>

ColA(codec) == ColumnChunk(<<"a">>, 1, codec, FALSE, MaxRows, 4)
ColB(codec) == ColumnChunk(<<"b">>, 2, codec, TRUE, MaxRows, 40)
ColIdx == ColumnChunk(<<"idx">>, 3, "UNCOMPRESSED", FALSE, MaxRows, 80)

\* Scenario A: one row group, an INT32 column a and a string column b
MD_A == FileMetaData(NoKV, << RowGroup(MaxRows, << ColA("UNCOMPRESSED"), ColB("UNCOMPRESSED") >>) >>)
\* Scenario B: one compressed chunk holding two pages
MD_B == FileMetaData(NoKV, << RowGroup(MaxRows, << ColA("GZIP") >>) >>)
\* Scenario C: three columns and a pandas index hint
MD_C == FileMetaData(PandasKV("\"idx\""),
          << RowGroup(MaxRows, << ColA("UNCOMPRESSED"), ColB("UNCOMPRESSED"), ColIdx >>) >>)
\* the index column stored first
MD_C2 == FileMetaData(PandasKV("\"idx\""),
          << RowGroup(MaxRows, << ColIdx, ColA("UNCOMPRESSED") >>) >>)
\* two row groups, two codecs, a compressed dictionary
MD_D == FileMetaData(NoKV,
          << RowGroup(MaxRows, << ColA("SNAPPY"), ColB("GZIP") >>),
             RowGroup(1, << ColumnChunk(<<"a">>, 1, "SNAPPY", FALSE, 1, 120),
                            ColumnChunk(<<"b">>, 2, "GZIP", TRUE, 1, 160) >>) >>)
\* the second row group holds more chunks of a selected column than the first
MD_E == FileMetaData(NoKV,
          << RowGroup(1, << ColumnChunk(<<"a">>, 1, "UNCOMPRESSED", FALSE, 1, 4) >>),
             RowGroup(1, << ColumnChunk(<<"a">>, 1, "UNCOMPRESSED", FALSE, 1, 20),
                            ColumnChunk(<<"a">>, 1, "UNCOMPRESSED", FALSE, 1, 30) >>) >>)
\* a codec outside g_supportedCodecs
MD_F == FileMetaData(NoKV, << RowGroup(MaxRows, << ColA("LZO") >>) >>)
\* a physical type to_dtype does not know
MD_G == FileMetaData(NoKV,
          << RowGroup(MaxRows, << ColumnChunk(<<"t">>, 4, "UNCOMPRESSED", FALSE, MaxRows, 4) >>) >>)
\* no row group; a row group without columns
MD_H == FileMetaData(NoKV, << >>)
MD_I == FileMetaData(NoKV, << RowGroup(0, << >>) >>)
\* a column whose path_in_schema is empty; a nested path
MD_J == FileMetaData(NoKV,
          << RowGroup(MaxRows, << ColumnChunk(<< >>, 1, "UNCOMPRESSED", FALSE, MaxRows, 4),
                                  ColumnChunk(<<"a", "b">>, 1, "UNCOMPRESSED", FALSE, MaxRows, 40) >>) >>)
\* an index hint of one character
MD_K == FileMetaData(PandasKV("\"i\""),
          << RowGroup(MaxRows, << ColA("UNCOMPRESSED"),
                                  ColumnChunk(<<"i">>, 5, "UNCOMPRESSED", FALSE, MaxRows, 40) >>) >>)

NoUseCols == [use_cols |-> << >>, use_cols_null |-> TRUE]
UseCols(names) == [use_cols |-> names, use_cols_null |-> FALSE]

File(raw, raw_size, hdr, ender, footer_len, read_ok, schema_ok, md) ==
  [raw |-> raw, raw_size |-> raw_size, hdr_magic |-> hdr, end_magic |-> ender,
   footer_len |-> footer_len, read_ok |-> read_ok, schema_ok |-> schema_ok,
   md |-> md]

GoodFile(md) == File(TRUE, MaxFileSize, "PAR1", "PAR1", 1, TRUE, TRUE, md)

\* files that differ in the envelope only (size, magic, footer length)
EnvelopeInputs ==
  { <<File(FALSE, 0, "PAR1", "PAR1", 1, TRUE, TRUE, MD_A), NoUseCols>>,
    <<File(TRUE, MaxFileSize, "PARX", "PAR1", 1, TRUE, TRUE, MD_A), NoUseCols>>,
    <<File(TRUE, MaxFileSize, "PAR1", "1RAP", 1, TRUE, TRUE, MD_A), NoUseCols>> }
  \cup { <<File(TRUE, sz, "PAR1", "PAR1", fl, TRUE, TRUE, MD_A), NoUseCols>> :
           sz \in {11, 12, 13, MaxFileSize}, fl \in 0 .. MaxFileSize }

\* files the metadata parser rejects: file_md is left as far as it got
ParserInputs ==
  { <<File(TRUE, MaxFileSize, "PAR1", "PAR1", 1, r[1], r[2], md), NoUseCols>> :
      r \in {<<FALSE, TRUE>>, <<TRUE, FALSE>>, <<FALSE, FALSE>>},
      md \in {MD_A, MD_H} }

PipelineInputs ==
  { <<GoodFile(MD_A), UseCols(<<"a">>)>>,
    <<GoodFile(MD_A), UseCols(<<"b", "a">>)>>,
    <<GoodFile(MD_A), UseCols(<<"zz">>)>>,
    <<GoodFile(MD_A), UseCols(<< >>)>>,
    <<GoodFile(MD_B), NoUseCols>>,
    <<GoodFile(MD_C), NoUseCols>>,
    <<GoodFile(MD_C), UseCols(<<"a">>)>>,
    <<GoodFile(MD_C2), UseCols(<<"a">>)>>,
    <<GoodFile(MD_D), NoUseCols>>,
    <<GoodFile(MD_D), UseCols(<<"b">>)>>,
    <<GoodFile(MD_E), NoUseCols>>,
    <<GoodFile(MD_F), NoUseCols>>,
    <<GoodFile(MD_G), NoUseCols>>,
    <<GoodFile(MD_H), NoUseCols>>,
    <<GoodFile(MD_I), NoUseCols>>,
    <<GoodFile(MD_J), NoUseCols>>,
    <<GoodFile(MD_J), UseCols(<<"a.b">>)>>,
    <<GoodFile(MD_K), UseCols(<<"a">>)>> }

Inputs == EnvelopeInputs \cup ParserInputs \cup PipelineInputs

(***************************************************************************)
(* The state of one call of read_parquet.                                  *)
(***************************************************************************)
VARIABLES
  file, args,        \* the input: file bytes / parser result, pq_read_arg inputs
  pc, ret,           \* position in read_parquet, returned gdf_error
  cp, file_md,       \* parquet::CPReader cp, parquet::FileMetaData file_md
  index_col_name, col_indexes,
  columns_owner,     \* gdf_columns columns_owner
  columns,           \* the gdf_column structs behind gdf_column **columns
  index_col, num_rows,
  chunk_map, compressed_page_cnt,
  state,             \* parquet_state: pointers and counters
  mem,               \* contents of chunk_desc, chunk_desc_dev, page_index, page_index_dev
  heap,              \* every pinned-host / device allocation of the call
  out,               \* args->data, num_cols_out, num_rows_out, index_col
  inflate,           \* the decompression staging arrays inflate_in / inflate_out
  log,               \* allocations, copies, kernels, frees, in program order
  faults, cuda_fault \* injected failures; sticky CUDA error after a kernel fault

vars == << file, args, pc, ret, cp, file_md, index_col_name, col_indexes,
           columns_owner, columns, index_col, num_rows, chunk_map,
           compressed_page_cnt, state, mem, heap, out, inflate, log, faults,
           cuda_fault >>

EmptyMD == [num_rows |-> 0, key_value_metadata |-> << >>, schema |-> << >>,
            row_groups |-> << >>]

\* args->num_cols_out as the caller left it before the call: args is an
\* in/out structure (line 347) that read_parquet does not clear on entry
PriorNumColsOut == {0, 3}

\* parquet_state state{}: the member initializers
parquet_state_init ==
  [chunk_desc |-> NULL, chunk_desc_dev |-> NULL, page_index |-> NULL,
   page_index_dev |-> NULL, max_num_chunks |-> 0, num_chunks |-> 0,
   total_pages |-> 0, num_compressed_pages |-> 0,
   total_decompressed_size |-> 0, total_str_indices |-> 0,
   str_dict_index |-> NULL, decompressed_pages |-> NULL]

Init ==
  /\ \E in \in Inputs : file = in[1] /\ args = in[2]
  /\ pc = "load_file"
  /\ ret = "none"
  /\ cp = [init |-> FALSE, start |-> 0, len |-> 0, read |-> FALSE]
  /\ file_md = EmptyMD
  /\ index_col_name = ""
  /\ col_indexes = << >>
  /\ columns_owner = [constructed |-> FALSE, num_columns |-> 0,
                      columns |-> FALSE, array_frees |-> 0]
  /\ columns = << >>
  /\ index_col = -1
  /\ num_rows = 0
  /\ chunk_map = << >>
  /\ compressed_page_cnt = << >>
  /\ state = parquet_state_init
  /\ mem = [chunk_desc |-> << >>, chunk_desc_dev |-> << >>,
            page_index |-> << >>, page_index_dev |-> << >>]
  /\ heap = << >>
  /\ \E prior \in PriorNumColsOut :
       out = [data |-> FALSE, num_cols_out |-> prior, num_rows_out |-> -1,
              index_col |-> -1, written |-> {}]
  /\ inflate = [in |-> << >>, out |-> << >>]
  /\ log = << >>
  /\ faults = 0
  /\ cuda_fault = FALSE

Ev(ev, what, n) == << ev, what, n >>

\* RMM_ALLOC / cudaMallocHost: a new entry of the heap; its id is its index
Alloc(hp, kind, size, bytes) ==
  Append(hp, [kind |-> kind, size |-> size, frees |-> 0, bytes |-> bytes])

CanFault == faults < MaxFaults

\* return <code>; the destructors run in Unwind
Return(code) == pc' = "return" /\ ret' = code

(***************************************************************************)
(* read_parquet, lines 386-405: load the file, check size, magic, footer.  *)
(***************************************************************************)
LoadFile ==
  /\ pc = "load_file"
  /\ IF ~file.raw \/ file.raw_size < SizeofFileHeader + SizeofFileEnder
     THEN Return("GDF_FILE_ERROR")
     ELSE pc' = "check_magic" /\ ret' = ret
  /\ UNCHANGED << file, args, inflate, cp, file_md, index_col_name, col_indexes,
                  columns_owner, columns, index_col, num_rows, chunk_map,
                  compressed_page_cnt, state, mem, heap, out, log, faults,
                  cuda_fault >>

CheckMagic ==
  /\ pc = "check_magic"
  /\ IF file.hdr_magic # PARQUET_MAGIC \/ file.end_magic # PARQUET_MAGIC
     THEN Return("GDF_FILE_ERROR")
     ELSE pc' = "check_footer" /\ ret' = ret
  /\ UNCHANGED << file, args, inflate, cp, file_md, index_col_name, col_indexes,
                  columns_owner, columns, index_col, num_rows, chunk_map,
                  compressed_page_cnt, state, mem, heap, out, log, faults,
                  cuda_fault >>

\* the bound of line 400 taken from the trailer alone
FooterLenInvalid_EnderOnly(footer_len, raw_size) ==
  \/ footer_len > raw_size - SizeofFileEnder
  \/ footer_len <= 0

\* the bound of line 400 without the test for a non-positive length
FooterLenInvalid_NoSign(footer_len, raw_size) ==
  footer_len > raw_size - SizeofFileHeader - SizeofFileEnder

\* line 400-401: the condition under which the footer length is rejected
FooterLenInvalid(footer_len, raw_size) ==
  \/ footer_len > raw_size - SizeofFileHeader - SizeofFileEnder
  \/ footer_len <= 0

CheckFooter ==
  /\ pc = "check_footer"
  /\ IF FooterLenInvalid(file.footer_len, file.raw_size)
     THEN Return("GDF_FILE_ERROR")
     ELSE pc' = "parse" /\ ret' = ret
  /\ UNCHANGED << file, args, inflate, cp, file_md, index_col_name, col_indexes,
                  columns_owner, columns, index_col, num_rows, chunk_map,
                  compressed_page_cnt, state, mem, heap, out, log, faults,
                  cuda_fault >>

(***************************************************************************)
(* Lines 406-416: cp.init on the footer bytes, cp.read, cp.InitSchema      *)
(* (both results only printed), print_metadata.                            *)
(***************************************************************************)
ParseMetadata ==
  /\ pc = "parse"
  /\ cp' = [init |-> TRUE,
            start |-> file.raw_size - file.footer_len - SizeofFileEnder,
            len |-> file.footer_len, read |-> TRUE]
  /\ file_md' = file.md
  /\ log' = log \o << Ev("parse", "cp.read", IF file.read_ok THEN 1 ELSE 0),
                      Ev("parse", "cp.InitSchema", IF file.schema_ok THEN 1 ELSE 0) >>
  /\ pc' = "select"
  /\ UNCHANGED << file, args, inflate, ret, index_col_name, col_indexes,
                  columns_owner, columns, index_col, num_rows, chunk_map,
                  compressed_page_cnt, state, mem, heap, out, faults,
                  cuda_fault >>

\* print_metadata line 182 reads file_md.row_groups[0] of an empty vector:
\* the build either prints garbage (ParseMetadata) or faults here
PrintMetadataFault ==
  /\ pc = "parse"
  /\ file.md.row_groups = << >>
  /\ pc' = "aborted"
  /\ cp' = [init |-> TRUE,
            start |-> file.raw_size - file.footer_len - SizeofFileEnder,
            len |-> file.footer_len, read |-> TRUE]
  /\ file_md' = file.md
  /\ log' = log \o << Ev("parse", "cp.read", IF file.read_ok THEN 1 ELSE 0),
                      Ev("parse", "cp.InitSchema", IF file.schema_ok THEN 1 ELSE 0) >>
  /\ UNCHANGED << file, args, inflate, ret, index_col_name, col_indexes,
                  columns_owner, columns, index_col, num_rows, chunk_map,
                  compressed_page_cnt, state, mem, heap, out, faults,
                  cuda_fault >>

(***************************************************************************)
(* Lines 418-451: the column selection.                                    *)
(***************************************************************************)
max_num_columns_of(md) ==
  IF Len(md.row_groups) # 0 THEN Len(md.row_groups[1].columns) ELSE 0

InSeq(x, s) == \E j \in 1 .. Len(s) : s[j] = x

\* names = use_cols[0 .. use_cols_len) followed by index_col_name
RECURSIVE FilterColumns(_, _, _, _)
FilterColumns(md, names, i, acc) ==
  IF i >= max_num_columns_of(md) THEN acc
  ELSE
    LET name == to_dot_string(md.row_groups[1].columns[i + 1].meta_data.path_in_schema)
    IN FilterColumns(md, names, i + 1,
                     IF InSeq(name, names) THEN Append(acc, i) ELSE acc)

Iota(n) == [j \in 1 .. n |-> j - 1]

\* the selection that forgets the index column
select_columns_no_index(md, a) ==
  IF a.use_cols_null THEN Iota(max_num_columns_of(md))
  ELSE FilterColumns(md, a.use_cols, 0, << >>)

\* col_indexes after lines 430-447
select_columns(md, a) ==
  IF a.use_cols_null THEN Iota(max_num_columns_of(md))
  ELSE FilterColumns(md, Append(a.use_cols, get_index_col(md)), 0, << >>)

SelectColumns ==
  /\ pc = "select"
  /\ IF max_num_columns_of(file_md) <= 0
     THEN /\ Return("GDF_DATASET_EMPTY")
          /\ UNCHANGED << index_col_name, col_indexes >>
     ELSE /\ index_col_name' = get_index_col(file_md)
          /\ col_indexes' = select_columns(file_md, args)
          /\ IF col_indexes' = << >>
             THEN Return("GDF_SUCCESS")
             ELSE pc' = "init_columns" /\ ret' = ret
  /\ UNCHANGED << file, args, inflate, cp, file_md, columns_owner, columns,
                  index_col, num_rows, chunk_map, compressed_page_cnt, state,
                  mem, heap, out, log, faults, cuda_fault >>

(***************************************************************************)
(* Lines 453-477: the gdf_columns owner and one gdf_column per selected    *)
(* column.  col_indexes.clear() (line 458) runs before the loop reads      *)
(* col_indexes[i] (line 462): the reads are out of the vector's bounds.    *)
(***************************************************************************)
num_columns == Len(columns)

\* what the out-of-bounds reads yield: the stale storage, or scrubbed storage
ClearedReads(ci) == { ci, [j \in 1 .. Len(ci) |-> 0] }

\* lines 462-474: the gdf_column made from column c of row group 0
new_gdf_column(md, c) ==
  LET col == md.row_groups[1].columns[c + 1]
      schema == md.schema[col.schema_idx + 1]
      dt == to_dtype(schema.type, schema.converted_type)
  IN [col_name |-> to_dot_string(col.meta_data.path_in_schema),
      dtype |-> dt[1], dtype_info |-> dt[2],
      size |-> md.num_rows,
      data |-> NULL, valid |-> NULL, null_count |-> 0, frees |-> 0]

\* a column sized by its first row group instead of file_md.num_rows
init_columns_rowgroup_size(md, reads) ==
  [i \in 1 .. Len(reads) |->
     [new_gdf_column(md, reads[i]) EXCEPT !.size = md.row_groups[1].num_rows]]

init_columns(md, reads) ==
  [i \in 1 .. Len(reads) |-> new_gdf_column(md, reads[i])]

\* line 465-467: the last i whose name is index_col_name, else -1
RECURSIVE find_index_col(_, _, _, _)
find_index_col(cols, name, i, acc) ==
  IF i >= Len(cols) THEN acc
  ELSE find_index_col(cols, name, i + 1,
                      IF cols[i + 1].col_name = name THEN i ELSE acc)

InitColumns ==
  /\ pc = "init_columns"
  /\ \E reads \in ClearedReads(col_indexes) :
       /\ columns' = init_columns(file_md, reads)
       /\ index_col' = find_index_col(columns', index_col_name, 0, index_col)
  /\ columns_owner' = [constructed |-> TRUE, num_columns |-> Len(col_indexes),
                       columns |-> TRUE, array_frees |-> 0]
  /\ col_indexes' = << >>
  /\ pc' = "alloc_chunks"
  /\ UNCHANGED << file, args, inflate, ret, cp, file_md, index_col_name, num_rows,
                  chunk_map, compressed_page_cnt, state, mem, heap, out, log,
                  faults, cuda_fault >>

\* a build with checked containers stops at the first col_indexes[i]
InitColumnsFault ==
  /\ pc = "init_columns"
  /\ pc' = "aborted"
  /\ columns_owner' = [constructed |-> TRUE, num_columns |-> Len(col_indexes),
                       columns |-> TRUE, array_frees |-> 0]
  /\ col_indexes' = << >>
  /\ UNCHANGED << file, args, inflate, ret, cp, file_md, index_col_name, columns,
                  index_col, num_rows, chunk_map, compressed_page_cnt, state,
                  mem, heap, out, log, faults, cuda_fault >>

(***************************************************************************)
(* parquet_state::alloc_chunks (lines 251-255), called at line 480.  The   *)
(* function has no return statement: when both allocations succeed the     *)
(* value GDF_TRY tests is indeterminate.                                   *)
(***************************************************************************)
FallOffEnd(next) ==
  \/ pc' = next /\ ret' = ret
  \/ Return("indeterminate")

AllocChunks ==
  /\ pc = "alloc_chunks"
  /\ LET max == Len(file_md.row_groups) * num_columns
         st1 == [state EXCEPT !.max_num_chunks = max]
         hp1 == Alloc(heap, "chunk_desc_dev", max, << >>)
         st2 == [st1 EXCEPT !.chunk_desc_dev = Ptr(Len(hp1), 0)]
         hp2 == Alloc(hp1, "chunk_desc", max, << >>)
         st3 == [st2 EXCEPT !.chunk_desc = Ptr(Len(hp2), 0)]
     IN
     \/ /\ CanFault
        /\ faults' = faults + 1
        /\ state' = st1
        /\ heap' = heap
        /\ log' = Append(log, Ev("alloc_failed", "chunk_desc_dev", 0))
        /\ Return("GDF_MEMORYMANAGER_ERROR")
     \/ /\ CanFault
        /\ faults' = faults + 1
        /\ state' = st2
        /\ heap' = hp1
        /\ log' = log \o << Ev("alloc", "chunk_desc_dev", Len(hp1)),
                            Ev("alloc_failed", "chunk_desc", 0) >>
        /\ Return("GDF_CUDA_ERROR")
     \/ /\ faults' = faults
        /\ state' = st3
        /\ heap' = hp2
        /\ log' = log \o << Ev("alloc", "chunk_desc_dev", Len(hp1)),
                            Ev("alloc", "chunk_desc", Len(hp2)) >>
        /\ FallOffEnd("build_chunks")
  /\ UNCHANGED << file, args, inflate, cp, file_md, index_col_name, col_indexes,
                  columns_owner, columns, index_col, num_rows, chunk_map,
                  compressed_page_cnt, mem, out, cuda_fault >>

(***************************************************************************)
(* Lines 481-545: one descriptor per column chunk whose name matches a     *)
(* selected column; the chunk's bytes are staged on the device.            *)
(***************************************************************************)
RECURSIVE SlotsFrom(_, _, _, _)
SlotsFrom(md, rg, c, acc) ==
  IF rg > Len(md.row_groups) THEN acc
  ELSE IF c > Len(md.row_groups[rg].columns) THEN SlotsFrom(md, rg + 1, 1, acc)
  ELSE SlotsFrom(md, rg, c + 1, Append(acc, << rg, c >>))

\* the (row group, column chunk) pairs in the order of the two outer loops
Slots(md) == SlotsFrom(md, 1, 1, << >>)

RowsBefore(md, rg) == SumRows(SubSeq(md.row_groups, 1, rg - 1))

\* the loop over k with its break: the first column of that name, or -1
RECURSIVE MatchColumn(_, _, _)
MatchColumn(cols, name, k) ==
  IF k >= Len(cols) THEN -1
  ELSE IF cols[k + 1].col_name = name THEN k
  ELSE MatchColumn(cols, name, k + 1)

\* parquet::CPReader::NumRequiredBits
RECURSIVE NumRequiredBits(_)
NumRequiredBits(max_level) ==
  IF max_level = 0 THEN 0 ELSE 1 + NumRequiredBits(max_level \div 2)

required_bits(max_level) == NumRequiredBits(max_level) % 256

\* the values of enum parquet::Type
TypeCode(type) ==
  CASE type = "BOOLEAN" -> 0 [] type = "INT32" -> 1 [] type = "INT64" -> 2
    [] type = "INT96" -> 3 [] type = "FLOAT" -> 4 [] type = "DOUBLE" -> 5
    [] type = "BYTE_ARRAY" -> 6 [] type = "FIXED_LEN_BYTE_ARRAY" -> 7
    [] OTHER -> 0

\* lines 503-528: the descriptor of one chunk, nothing staged yet
new_chunk_desc(md, col, dtype, start_row, rg_rows) ==
  LET schema == md.schema[col.schema_idx + 1]
      tl0 == IF schema.type = "FIXED_LEN_BYTE_ARRAY"
             THEN (schema.type_length * 8) % 65536 ELSE 0
      type_length == IF dtype = "GDF_INT8" THEN 1
                     ELSE IF dtype = "GDF_INT16" THEN 2 ELSE tl0
  IN [compressed_data |-> NULL,
      compressed_size |-> col.meta_data.total_compressed_size,
      num_values |-> col.meta_data.num_values,
      start_row |-> start_row,
      num_rows |-> rg_rows,
      max_def_level |-> schema.max_definition_level,
      max_rep_level |-> schema.max_repetition_level,
      def_level_bits |-> required_bits(schema.max_definition_level),
      rep_level_bits |-> required_bits(schema.max_repetition_level),
      data_type |-> (TypeCode(schema.type) + type_length * 8) % 65536,
      num_data_pages |-> 0, num_dict_pages |-> 0, max_num_pages |-> 0,
      page_info |-> NULL, str_dict_index |-> NULL,
      valid_map_base |-> NULL, column_data_base |-> NULL]

first_page_offset(col) ==
  IF col.meta_data.dictionary_page_offset # 0
  THEN Min(col.meta_data.data_page_offset, col.meta_data.dictionary_page_offset)
  ELSE col.meta_data.data_page_offset

\* acc: the descriptors, chunk_map, heap and log so far; nstage counts the
\* staging allocations, failset names the ones that fail
RECURSIVE BuildFrom(_, _, _, _, _, _)
BuildFrom(md, max, cols, slots, failset, acc) ==
  IF slots = << >> THEN acc
  ELSE
    LET rg == Head(slots)[1]
        col == md.row_groups[rg].columns[Head(slots)[2]]
        k == MatchColumn(cols, to_dot_string(col.meta_data.path_in_schema), 0)
    IN
    IF k = -1 THEN BuildFrom(md, max, cols, Tail(slots), failset, acc)
    ELSE IF Len(acc.chunks) < max
    THEN
      LET size == col.meta_data.total_compressed_size
          n == IF size > 0 THEN acc.nstage + 1 ELSE acc.nstage
          ok == size > 0 /\ n \notin failset
          hp == IF ok THEN Alloc(acc.heap, "compressed_data", size, col.pages)
                ELSE acc.heap
          chunk == [new_chunk_desc(md, col, cols[k + 1].dtype,
                                   RowsBefore(md, rg), md.row_groups[rg].num_rows)
                      EXCEPT !.compressed_data = IF ok THEN Ptr(Len(hp), 0) ELSE NULL]
          lg == IF size = 0 THEN acc.log
                ELSE IF ok
                THEN acc.log \o << Ev("alloc", "compressed_data", Len(hp)),
                                   Ev("copy", "raw -> compressed_data", first_page_offset(col)) >>
                ELSE Append(acc.log, Ev("alloc_failed", "compressed_data", 0))
      IN BuildFrom(md, max, cols, Tail(slots), failset,
                   [chunks |-> Append(acc.chunks, chunk),
                    map |-> Append(acc.map, [first |-> Head(slots), second |-> k]),
                    heap |-> hp, log |-> lg, nstage |-> n, dropped |-> acc.dropped])
    ELSE BuildFrom(md, max, cols, Tail(slots), failset,
                   [acc EXCEPT !.dropped = @ + 1,
                               !.log = Append(@, Ev("print", "Too many chunks", 0))])

build_chunks(md, max, cols, failset, hp, lg) ==
  BuildFrom(md, max, cols, Slots(md), failset,
            [chunks |-> << >>, map |-> << >>, heap |-> hp, log |-> lg,
             nstage |-> 0, dropped |-> 0])

BuildChunks ==
  /\ pc = "build_chunks"
  /\ LET dry == build_chunks(file_md, state.max_num_chunks, columns, {}, heap, log)
     IN \E failset \in SUBSET (1 .. dry.nstage) :
          /\ Cardinality(failset) <= MaxFaults - faults
          /\ LET r == build_chunks(file_md, state.max_num_chunks, columns,
                                   failset, heap, log)
             IN /\ mem' = [mem EXCEPT !.chunk_desc = r.chunks]
                /\ chunk_map' = r.map
                /\ heap' = r.heap
                /\ log' = r.log
                /\ state' = [state EXCEPT !.num_chunks = Len(r.chunks)]
          /\ faults' = faults + Cardinality(failset)
  /\ num_rows' = SumRows(file_md.row_groups)
  /\ pc' = "header_pass1"
  /\ UNCHANGED << file, args, inflate, ret, cp, file_md, index_col_name, col_indexes,
                  columns_owner, columns, index_col, compressed_page_cnt, out,
                  cuda_fault >>

(***************************************************************************)
(* The header-decode kernel, parquet::gpu::DecodePageHeaders: it walks the *)
(* page headers in each chunk's staged bytes, counts data and dictionary   *)
(* pages and, for a chunk with a page_info pointer, fills one PageInfo per *)
(* page.  A chunk whose bytes were never staged makes the kernel fault.    *)
(***************************************************************************)
RECURSIVE CountPagesOf(_, _)
CountPagesOf(pages, dict) ==
  IF pages = << >> THEN 0
  ELSE (IF Head(pages).dict = dict THEN 1 ELSE 0) + CountPagesOf(Tail(pages), dict)

PageInfoOf(pages, k, chunk_idx, data) ==
  [compressed_page_data |->
     Ptr(data.buf, SumField(SubSeq(pages, 1, k - 1), "compressed_page_size")),
   uncompressed_page_size |-> pages[k].uncompressed_page_size,
   compressed_page_size |-> pages[k].compressed_page_size,
   num_values |-> pages[k].num_values,
   chunk_row |-> SumField(SubSeq(pages, 1, k - 1), "num_rows"),
   num_rows |-> pages[k].num_rows,
   chunk_idx |-> chunk_idx,
   flags |-> IF pages[k].dict THEN 1 ELSE 0,
   encoding |-> 0,
   valid_count |-> 0]

StagedBytes(hp, chunk) ==
  IF chunk.compressed_data = NULL THEN << >>
  ELSE hp[chunk.compressed_data.buf].bytes

RECURSIVE FillPages(_, _, _, _)
FillPages(hp, chunks, c, pages_dev) ==
  IF c > Len(chunks) THEN pages_dev
  ELSE
    LET ch == chunks[c]
        bytes == StagedBytes(hp, ch)
        n == IF ch.page_info = NULL THEN 0 ELSE Min(ch.max_num_pages, Len(bytes))
    IN FillPages(hp, chunks, c + 1,
         [p \in 1 .. Len(pages_dev) |->
            IF p > ch.page_info.ofs /\ p <= ch.page_info.ofs + n
            THEN PageInfoOf(bytes, p - ch.page_info.ofs, c - 1, ch.compressed_data)
            ELSE pages_dev[p]])

DecodePageHeaders(hp, chunks_dev, pages_dev) ==
  [fault |-> \E c \in 1 .. Len(chunks_dev) :
               chunks_dev[c].compressed_size > 0 /\ chunks_dev[c].compressed_data = NULL,
   chunks |-> [c \in 1 .. Len(chunks_dev) |->
                 [chunks_dev[c] EXCEPT
                    !.num_data_pages = CountPagesOf(StagedBytes(hp, chunks_dev[c]), FALSE),
                    !.num_dict_pages = CountPagesOf(StagedBytes(hp, chunks_dev[c]), TRUE)]],
   pages |-> FillPages(hp, chunks_dev, 1, pages_dev)]

(***************************************************************************)
(* parquet_state::dispatch_chunk_op (lines 266-276) with DecodePageHeaders *)
(* as the operation: push the descriptors, run the kernel, pull them, wait.*)
(* No return statement: after the synchronize the result is indeterminate. *)
(***************************************************************************)
dispatch_chunk_op(next, host_chunks) ==
  LET n == state.num_chunks
      k == DecodePageHeaders(heap, host_chunks, mem.page_index_dev)
      push == Ev("copy", "chunk_desc -> chunk_desc_dev", n)
      kern == Ev("kernel", "DecodePageHeaders", n)
      pull == Ev("copy", "chunk_desc_dev -> chunk_desc", n)
  IN
  \/ /\ CanFault
     /\ faults' = faults + 1
     /\ mem' = [mem EXCEPT !.chunk_desc = host_chunks]
     /\ log' = Append(log, Ev("copy_failed", "chunk_desc -> chunk_desc_dev", n))
     /\ cuda_fault' = cuda_fault
     /\ Return("GDF_CUDA_ERROR")
  \/ /\ k.fault
     /\ faults' = faults
     /\ mem' = [mem EXCEPT !.chunk_desc = host_chunks, !.chunk_desc_dev = host_chunks]
     /\ log' = log \o << push, kern, Ev("kernel_fault", "DecodePageHeaders", n) >>
     /\ cuda_fault' = TRUE
     /\ Return("GDF_CUDA_ERROR")
  \/ /\ ~k.fault
     /\ CanFault
     /\ faults' = faults + 1
     /\ mem' = [mem EXCEPT !.chunk_desc = k.chunks, !.chunk_desc_dev = k.chunks,
                           !.page_index_dev = k.pages]
     /\ log' = log \o << push, kern, pull, Ev("sync_failed", "", 0) >>
     /\ cuda_fault' = cuda_fault
     /\ Return("GDF_CUDA_ERROR")
  \/ /\ ~k.fault
     /\ faults' = faults
     /\ mem' = [mem EXCEPT !.chunk_desc = k.chunks, !.chunk_desc_dev = k.chunks,
                           !.page_index_dev = k.pages]
     /\ log' = log \o << push, kern, pull, Ev("sync", "", 0) >>
     /\ cuda_fault' = cuda_fault
     /\ FallOffEnd(next)

\* line 548: count the pages (no chunk has a page_info pointer yet)
HeaderPass1 ==
  /\ pc = "header_pass1"
  /\ dispatch_chunk_op("count_pages", mem.chunk_desc)
  /\ UNCHANGED << file, args, inflate, cp, file_md, index_col_name,
                  col_indexes, columns_owner, columns, index_col, num_rows,
                  chunk_map, compressed_page_cnt, state, heap, out >>

(***************************************************************************)
(* Lines 552-563: total_pages, then parquet_state::alloc_pages (257-260).  *)
(* cudaMallocHost returns uninitialised pinned memory.                     *)
(***************************************************************************)
GarbagePage(junk) ==
  [compressed_page_data |-> IF junk THEN Ptr(0, 7) ELSE NULL,
   uncompressed_page_size |-> IF junk THEN 1 ELSE 0,
   compressed_page_size |-> IF junk THEN 1 ELSE 0,
   num_values |-> IF junk THEN 1 ELSE 0,
   chunk_row |-> 0,
   num_rows |-> IF junk THEN 1 ELSE 0,
   chunk_idx |-> 0, flags |-> 0, encoding |-> 0, valid_count |-> 0]

\* a total that leaves the dictionary pages out
RECURSIVE total_pages_of_data_only(_)
total_pages_of_data_only(chunks) ==
  IF chunks = << >> THEN 0
  ELSE Head(chunks).num_data_pages + total_pages_of_data_only(Tail(chunks))

\* lines 552-558: the sum the loop adds to total_pages
RECURSIVE total_pages_of(_)
total_pages_of(chunks) ==
  IF chunks = << >> THEN 0
  ELSE Head(chunks).num_data_pages + Head(chunks).num_dict_pages
       + total_pages_of(Tail(chunks))

CountPages ==
  /\ pc = "count_pages"
  /\ LET total == state.total_pages + total_pages_of(mem.chunk_desc)
         st1 == [state EXCEPT !.total_pages = total]
         hp1 == Alloc(heap, "page_index_dev", total, << >>)
         st2 == [st1 EXCEPT !.page_index_dev = Ptr(Len(hp1), 0)]
         hp2 == Alloc(hp1, "page_index", total, << >>)
         st3 == [st2 EXCEPT !.page_index = Ptr(Len(hp2), 0)]
     IN
     IF total > 0
     THEN
       \/ /\ CanFault
          /\ faults' = faults + 1
          /\ state' = st1 /\ heap' = heap /\ mem' = mem
          /\ log' = Append(log, Ev("alloc_failed", "page_index_dev", 0))
          /\ Return("GDF_MEMORYMANAGER_ERROR")
       \/ /\ CanFault
          /\ faults' = faults + 1
          /\ state' = st2 /\ heap' = hp1 /\ mem' = mem
          /\ log' = log \o << Ev("alloc", "page_index_dev", Len(hp1)),
                              Ev("alloc_failed", "page_index", 0) >>
          /\ Return("GDF_CUDA_ERROR")
       \/ /\ faults' = faults
          /\ state' = st3 /\ heap' = hp2
          /\ \E junk \in BOOLEAN :
               mem' = [mem EXCEPT
                         !.page_index = [p \in 1 .. total |-> GarbagePage(junk)],
                         !.page_index_dev = [p \in 1 .. total |-> GarbagePage(junk)]]
          /\ log' = log \o << Ev("alloc", "page_index_dev", Len(hp1)),
                              Ev("alloc", "page_index", Len(hp2)) >>
          /\ FallOffEnd("header_pass2")
     ELSE /\ state' = st1
          /\ pc' = "alloc_column_data" /\ ret' = ret
          /\ UNCHANGED << heap, mem, log, faults >>
  /\ UNCHANGED << file, args, inflate, cp, file_md, index_col_name,
                  col_indexes, columns_owner, columns, index_col, num_rows,
                  chunk_map, compressed_page_cnt, out, cuda_fault >>

(***************************************************************************)
(* Lines 566-573: give every chunk its slice of page_index_dev, decode the *)
(* page headers again.                                                     *)
(***************************************************************************)
RECURSIVE PagesBefore(_, _)
PagesBefore(chunks, c) ==
  IF c <= 1 THEN 0
  ELSE PagesBefore(chunks, c - 1)
       + chunks[c - 1].num_data_pages + chunks[c - 1].num_dict_pages

\* every chunk pointed at the start of the array
set_page_info_no_offset(chunks, page_index_dev) ==
  [c \in 1 .. Len(chunks) |->
     [chunks[c] EXCEPT
        !.max_num_pages = chunks[c].num_data_pages + chunks[c].num_dict_pages,
        !.page_info = Ptr(page_index_dev.buf, 0)]]

\* lines 566-571
set_page_info(chunks, page_index_dev) ==
  [c \in 1 .. Len(chunks) |->
     [chunks[c] EXCEPT
        !.max_num_pages = chunks[c].num_data_pages + chunks[c].num_dict_pages,
        !.page_info = Ptr(page_index_dev.buf, PagesBefore(chunks, c))]]

HeaderPass2 ==
  /\ pc = "header_pass2"
  /\ dispatch_chunk_op("count_compressed",
                       set_page_info(mem.chunk_desc, state.page_index_dev))
  /\ UNCHANGED << file, args, inflate, cp, file_md, index_col_name,
                  col_indexes, columns_owner, columns, index_col, num_rows,
                  chunk_map, compressed_page_cnt, state, heap, out >>

(***************************************************************************)
(* Lines 581-607: per supported codec, the pages of the chunks that use it *)
(* and the sum of their uncompressed sizes, read from the host page_index. *)
(***************************************************************************)
ChunkCodec(md, map, c) ==
  md.row_groups[map[c].first[1]].columns[map[c].first[2]].meta_data.codec

RECURSIVE MaxPagesBefore(_, _)
MaxPagesBefore(chunks, c) ==
  IF c <= 1 THEN 0 ELSE MaxPagesBefore(chunks, c - 1) + chunks[c - 1].max_num_pages

RECURSIVE codec_page_cnt(_, _, _, _, _)
codec_page_cnt(md, map, chunks, codec, c) ==
  IF c > Len(chunks) THEN 0
  ELSE (IF ChunkCodec(md, map, c) = codec THEN chunks[c].max_num_pages ELSE 0)
       + codec_page_cnt(md, map, chunks, codec, c + 1)

RECURSIVE codec_bytes(_, _, _, _, _, _)
codec_bytes(md, map, chunks, pages, codec, c) ==
  IF c > Len(chunks) THEN 0
  ELSE (IF ChunkCodec(md, map, c) = codec
        THEN SumField(SubSeq(pages, MaxPagesBefore(chunks, c) + 1,
                             MaxPagesBefore(chunks, c) + chunks[c].max_num_pages),
                      "uncompressed_page_size")
        ELSE 0)
       + codec_bytes(md, map, chunks, pages, codec, c + 1)

CountCompressed ==
  /\ pc = "count_compressed"
  /\ LET cnt == [i \in 1 .. NUM_SUPPORTED_CODECS |->
                   codec_page_cnt(file_md, chunk_map, mem.chunk_desc,
                                  g_supportedCodecs[i], 1)]
         bytes == [i \in 1 .. NUM_SUPPORTED_CODECS |->
                     codec_bytes(file_md, chunk_map, mem.chunk_desc,
                                 mem.page_index, g_supportedCodecs[i], 1)]
     IN /\ compressed_page_cnt' = cnt
        /\ state' = [state EXCEPT !.num_compressed_pages = SumSeq(cnt),
                                  !.total_decompressed_size = SumSeq(bytes)]
        /\ pc' = IF SumSeq(cnt) > 0 THEN "decompress" ELSE "alloc_column_data"
  /\ UNCHANGED << file, args, inflate, ret, cp, file_md, index_col_name,
                  col_indexes, columns_owner, columns, index_col, num_rows,
                  chunk_map, mem, heap, out, log, faults, cuda_fault >>

(***************************************************************************)
(* The destructors that run at every return of read_parquet:               *)
(* ~gdf_columns (lines 307-316), then ~parquet_state (lines 278-290).      *)
(***************************************************************************)
\* RMM_FREE / cudaFreeHost: nothing for a null pointer
Free(hp, p) == IF p = NULL THEN hp ELSE [hp EXCEPT ![p.buf].frees = @ + 1]

RECURSIVE FreeAll(_, _)
FreeAll(hp, ptrs) ==
  IF ptrs = << >> THEN hp ELSE FreeAll(Free(hp, Head(ptrs)), Tail(ptrs))

RECURSIVE FreeEvents(_, _)
FreeEvents(hp, ptrs) ==
  IF ptrs = << >> THEN << >>
  ELSE (IF Head(ptrs) = NULL THEN << >>
        ELSE << Ev("free", hp[Head(ptrs).buf].kind, Head(ptrs).buf) >>)
       \o FreeEvents(hp, Tail(ptrs))

\* a teardown that forgets the staged chunk bytes
parquet_state_dtor_no_chunks(st, m) ==
  << st.str_dict_index, st.decompressed_pages, st.page_index,
     st.page_index_dev, st.chunk_desc, st.chunk_desc_dev >>

\* a teardown that releases the staged chunk bytes last chunk first
parquet_state_dtor_reversed(st, m) ==
  << st.str_dict_index, st.decompressed_pages, st.page_index,
     st.page_index_dev >>
  \o (IF st.chunk_desc # NULL
      THEN [i \in 1 .. st.num_chunks |->
              m.chunk_desc[st.num_chunks + 1 - i].compressed_data]
      ELSE << >>)
  \o << st.chunk_desc, st.chunk_desc_dev >>

\* ~parquet_state: the pointers released, in order
parquet_state_dtor(st, m) ==
  << st.str_dict_index, st.decompressed_pages, st.page_index,
     st.page_index_dev >>
  \o (IF st.chunk_desc # NULL
      THEN [i \in 1 .. st.num_chunks |-> m.chunk_desc[i].compressed_data]
      ELSE << >>)
  \o << st.chunk_desc, st.chunk_desc_dev >>

\* an owner that keeps its columns after release()
gdf_columns_release_keeps(owner) == [owner EXCEPT !.columns = FALSE]

\* gdf_columns::release (lines 339-342)
gdf_columns_release(owner) ==
  [owner EXCEPT !.columns = FALSE, !.num_columns = 0]

\* ~gdf_columns: the columns it frees are columns[0 .. num_columns)
gdf_columns_dtor_count(owner) ==
  IF owner.constructed THEN owner.num_columns ELSE 0

RECURSIVE ColumnBuffers(_, _)
ColumnBuffers(cols, n) ==
  IF n = 0 THEN << >>
  ELSE ColumnBuffers(cols, n - 1) \o << cols[n].data, cols[n].valid >>

(***************************************************************************)
(* Lines 609-683: stage every compressed page, run one decompression       *)
(* kernel per codec, repoint the pages, push page_index to the device.     *)
(* None of the five allocations is checked.                                *)
(***************************************************************************)
RECURSIVE AllocMany(_, _, _, _, _)
AllocMany(kinds, sizes, failset, j, acc) ==
  IF j > Len(kinds) THEN acc
  ELSE IF j \in failset
  THEN AllocMany(kinds, sizes, failset, j + 1,
                 [acc EXCEPT !.ptrs = Append(@, NULL),
                             !.log = Append(@, Ev("alloc_failed", kinds[j], 0))])
  ELSE LET hp == Alloc(acc.heap, kinds[j], sizes[j], << >>)
       IN AllocMany(kinds, sizes, failset, j + 1,
                    [heap |-> hp, ptrs |-> Append(acc.ptrs, Ptr(Len(hp), 0)),
                     log |-> Append(acc.log, Ev("alloc", kinds[j], Len(hp)))])

RECURSIVE StagedOfCodec(_, _, _, _, _)
StagedOfCodec(md, map, chunks, codec, c) ==
  IF c > Len(chunks) THEN << >>
  ELSE (IF ChunkCodec(md, map, c) = codec
        THEN [k \in 1 .. chunks[c].max_num_pages |-> MaxPagesBefore(chunks, c) + k]
        ELSE << >>)
       \o StagedOfCodec(md, map, chunks, codec, c + 1)

\* the pages in staging order: codec by codec, chunk by chunk, page by page
RECURSIVE staged_pages(_, _, _, _, _)
staged_pages(md, map, chunks, cnt, i) ==
  IF i > NUM_SUPPORTED_CODECS THEN << >>
  ELSE (IF cnt[i] > 0
        THEN StagedOfCodec(md, map, chunks, g_supportedCodecs[i], 1)
        ELSE << >>)
       \o staged_pages(md, map, chunks, cnt, i + 1)

\* lines 637-645: inflate_in[comp_cnt] for each staged page
RECURSIVE stage_inflate(_, _, _, _, _)
stage_inflate(pages, order, j, ofs, dp) ==
  IF j > Len(order) THEN << >>
  ELSE LET pg == pages[order[j]]
       IN << [srcDevice |-> pg.compressed_page_data,
              srcSize |-> pg.compressed_page_size,
              dstDevice |-> Ptr(dp.buf, dp.ofs + ofs),
              dstSize |-> pg.uncompressed_page_size] >>
          \o stage_inflate(pages, order, j + 1, ofs + pg.uncompressed_page_size, dp)

\* line 644: each staged page now points at its slice of decompressed_pages
repoint_pages(pages, order, entries) ==
  [p \in 1 .. Len(pages) |->
     IF \E j \in 1 .. Len(order) : order[j] = p
     THEN [pages[p] EXCEPT !.compressed_page_data =
             entries[CHOOSE j \in 1 .. Len(order) : order[j] = p].dstDevice]
     ELSE pages[p]]

\* the page of staged chunk bytes that starts at byte offset ofs, if any
PageCorruptAt(bytes, ofs) ==
  \E k \in 1 .. Len(bytes) :
    /\ SumField(SubSeq(bytes, 1, k - 1), "compressed_page_size") = ofs
    /\ bytes[k].corrupt

\* gpuinflate / gpu_unsnap on one entry: a status, or a fault of the kernel
InflateFaults(hp, e) ==
  \/ e.srcDevice.buf = 0 /\ e.srcDevice.ofs # 0
  \/ /\ e.srcDevice # NULL /\ e.srcSize > 0
     /\ \/ e.dstDevice.buf = 0
        \/ e.dstDevice.ofs + e.dstSize > hp[e.dstDevice.buf].size

InflateStatus(hp, e) ==
  IF e.srcDevice = NULL \/ e.srcSize = 0 THEN 1
  ELSE IF PageCorruptAt(hp[e.srcDevice.buf].bytes, e.srcDevice.ofs) THEN 1
  ELSE 0

Decompress ==
  /\ pc = "decompress"
  /\ \E failset \in SUBSET (1 .. 5) :
       /\ Cardinality(failset) <= MaxFaults - faults
       /\ faults' = faults + Cardinality(failset)
       /\ LET n == state.num_compressed_pages
              a == AllocMany(<< "inflate_in", "inflate_in_dev", "inflate_out",
                                "inflate_out_dev", "decompressed_pages" >>,
                             << n, n, n, n, state.total_decompressed_size >>,
                             failset, 1,
                             [heap |-> heap, ptrs |-> << >>, log |-> log])
              dp == a.ptrs[5]
              order == staged_pages(file_md, chunk_map, mem.chunk_desc,
                                    compressed_page_cnt, 1)
              entries == stage_inflate(mem.page_index, order, 1, 0, dp)
              patched == repoint_pages(mem.page_index, order, entries)
              fault == \/ a.ptrs[2] = NULL \/ a.ptrs[4] = NULL
                       \/ \E j \in 1 .. Len(entries) : InflateFaults(a.heap, entries[j])
              status == [j \in 1 .. Len(entries) |->
                           IF fault
                           THEN [status |-> -1000, bytes_written |-> 0]
                           ELSE [status |-> InflateStatus(a.heap, entries[j]),
                                 bytes_written |->
                                   IF InflateStatus(a.heap, entries[j]) = 0
                                   THEN entries[j].dstSize ELSE 0]]
              kernels == [i \in 1 .. NUM_SUPPORTED_CODECS |->
                            Ev("kernel",
                               IF g_supportedCodecs[i] = "GZIP" THEN "gpuinflate"
                               ELSE "gpu_unsnap",
                               compressed_page_cnt[i])]
              ran == SelectSeq(kernels, LAMBDA ev : ev[3] > 0)
              frees == << a.ptrs[1], a.ptrs[3], a.ptrs[4], a.ptrs[2] >>
          IN
          IF a.ptrs[1] = NULL \/ a.ptrs[3] = NULL
          THEN \* inflate_in[comp_cnt] / inflate_out[comp_cnt] written through nullptr
               /\ pc' = "aborted"
               /\ heap' = a.heap
               /\ log' = a.log
               /\ state' = [state EXCEPT !.decompressed_pages = dp]
               /\ UNCHANGED << mem, inflate, cuda_fault >>
          ELSE /\ pc' = "alloc_column_data"
               /\ heap' = FreeAll(a.heap, frees)
               /\ state' = [state EXCEPT !.decompressed_pages = dp]
               /\ inflate' = [in |-> entries, out |-> status]
               /\ cuda_fault' = fault
               /\ mem' = [mem EXCEPT !.page_index = patched,
                                     !.page_index_dev = IF fault THEN @ ELSE patched]
               /\ log' = a.log \o ran
                         \o (IF fault THEN << Ev("kernel_fault", "inflate", 0) >> ELSE << >>)
                         \o << Ev("sync", "", 0) >>
                         \o FreeEvents(a.heap, frees)
                         \o << Ev(IF fault THEN "copy_failed" ELSE "copy",
                                  "page_index -> page_index_dev", state.total_pages),
                               Ev("sync", "", 0) >>
  /\ UNCHANGED << file, args, ret, cp, file_md, index_col_name, col_indexes,
                  columns_owner, columns, index_col, num_rows, chunk_map,
                  compressed_page_cnt, out >>

(***************************************************************************)
(* gdf_columns::alloc_column_data (lines 318-337), called at line 687.     *)
(***************************************************************************)
\* get_column_byte_width; 0 is left in place for a dtype it rejects
ByteWidth(dtype) ==
  CASE dtype = "GDF_INT8" -> 1 [] dtype = "GDF_INT16" -> 2
    [] dtype \in {"GDF_INT32", "GDF_FLOAT32", "GDF_DATE32"} -> 4
    [] dtype \in {"GDF_INT64", "GDF_FLOAT64", "GDF_DATE64"} -> 8
    [] OTHER -> 0

\* gdf_get_num_chars_bitmask
gdf_get_num_chars_bitmask(size) == (size + 7) \div 8

\* f: which RMM_ALLOC fails (2i-1: data of column i, 2i: valid), 0 for none
RECURSIVE alloc_column_data(_, _, _, _, _, _)
alloc_column_data(cols, i, f, sticky, hp, lg) ==
  IF i > Len(cols)
  THEN [code |-> "GDF_SUCCESS", cols |-> cols, heap |-> hp, log |-> lg]
  ELSE
    LET rows == Max(cols[i].size, 1)
        width == IF cols[i].dtype = "GDF_STRING" THEN SizeofStrDesc
                 ELSE ByteWidth(cols[i].dtype)
        hp1 == Alloc(hp, "column_data", rows * width, << >>)
        hp2 == Alloc(hp1, "column_valid", gdf_get_num_chars_bitmask(rows), << >>)
        c1 == [cols EXCEPT ![i].data = Ptr(Len(hp1), 0)]
        c2 == [c1 EXCEPT ![i].valid = Ptr(Len(hp2), 0)]
    IN
    IF f = 2 * i - 1
    THEN [code |-> "GDF_MEMORYMANAGER_ERROR", cols |-> cols, heap |-> hp,
          log |-> Append(lg, Ev("alloc_failed", "column_data", 0))]
    ELSE IF f = 2 * i
    THEN [code |-> "GDF_MEMORYMANAGER_ERROR", cols |-> c1, heap |-> hp1,
          log |-> lg \o << Ev("alloc", "column_data", Len(hp1)),
                           Ev("alloc_failed", "column_valid", 0) >>]
    ELSE IF sticky
    THEN [code |-> "GDF_CUDA_ERROR", cols |-> c2, heap |-> hp2,
          log |-> lg \o << Ev("alloc", "column_data", Len(hp1)),
                           Ev("alloc", "column_valid", Len(hp2)),
                           Ev("memset_failed", "column_valid", 0) >>]
    ELSE alloc_column_data(c2, i + 1, f, sticky, hp2,
                           lg \o << Ev("alloc", "column_data", Len(hp1)),
                                    Ev("alloc", "column_valid", Len(hp2)) >>)

AllocColumnData ==
  /\ pc = "alloc_column_data"
  /\ \E f \in 0 .. (IF CanFault THEN 2 * columns_owner.num_columns ELSE 0) :
       LET r == alloc_column_data(columns, 1, f, cuda_fault, heap, log)
       IN /\ columns' = r.cols
          /\ heap' = r.heap
          /\ log' = r.log
          /\ faults' = IF f = 0 THEN faults ELSE faults + 1
          /\ IF r.code = "GDF_SUCCESS"
             THEN pc' = "build_dictionaries" /\ ret' = ret
             ELSE Return(r.code)
  /\ UNCHANGED << file, args, inflate, cp, file_md, index_col_name,
                  col_indexes, columns_owner, index_col, num_rows, chunk_map,
                  compressed_page_cnt, state, mem, out, cuda_fault >>

(***************************************************************************)
(* Lines 689-724: the string dictionary index and the chunks' pointers to  *)
(* the column buffers.  alloc_dictionaries (262-264) is called unchecked.  *)
(***************************************************************************)
HasStrDict(md, map, chunks, c) ==
  /\ md.schema[md.row_groups[map[c].first[1]].columns[map[c].first[2]].schema_idx + 1].type
       = "BYTE_ARRAY"
  /\ chunks[c].num_dict_pages > 0

\* the num_values of the first page of each dictionary-bearing string chunk
RECURSIVE str_indices_before(_, _, _, _, _)
str_indices_before(md, map, chunks, pages, c) ==
  IF c <= 1 THEN 0
  ELSE str_indices_before(md, map, chunks, pages, c - 1)
       + (IF HasStrDict(md, map, chunks, c - 1)
          THEN pages[MaxPagesBefore(chunks, c - 1) + 1].num_values ELSE 0)

wire_chunks(md, map, chunks, pages, cols, str_dict_index) ==
  [c \in 1 .. Len(chunks) |->
     [chunks[c] EXCEPT
        !.str_dict_index =
           IF HasStrDict(md, map, chunks, c)
           THEN Ptr(str_dict_index.buf,
                    str_dict_index.ofs + str_indices_before(md, map, chunks, pages, c))
           ELSE @,
        !.valid_map_base = cols[map[c].second + 1].valid,
        !.column_data_base = cols[map[c].second + 1].data]]

\* a host-to-device copy that was not made
push_chunk_desc_skipped(host, dev, failed) == dev

\* line 719: cudaMemcpyAsync(chunk_desc_dev, chunk_desc, ...), result ignored
push_chunk_desc(host, dev, failed) == IF failed THEN dev ELSE host

BuildDictionaries ==
  /\ pc = "build_dictionaries"
  /\ LET total == str_indices_before(file_md, chunk_map, mem.chunk_desc,
                                     mem.page_index, state.num_chunks + 1)
         hp1 == Alloc(heap, "str_dict_index", total * SizeofStrDesc, << >>)
     IN \E ok \in (IF total > 0 /\ CanFault THEN BOOLEAN ELSE {TRUE}) :
          LET sdi == IF total > 0 /\ ok THEN Ptr(Len(hp1), 0) ELSE NULL
              wired == wire_chunks(file_md, chunk_map, mem.chunk_desc,
                                   mem.page_index, columns, sdi)
              fault == cuda_fault \/ (total > 0 /\ sdi = NULL)
          IN /\ faults' = IF ok THEN faults ELSE faults + 1
             /\ heap' = IF total > 0 /\ ok THEN hp1 ELSE heap
             /\ state' = [state EXCEPT !.total_str_indices = total,
                                       !.str_dict_index = sdi]
             /\ mem' = [mem EXCEPT !.chunk_desc = wired,
                                   !.chunk_desc_dev = push_chunk_desc(wired, @, cuda_fault)]
             /\ cuda_fault' = fault
             /\ log' = log
                  \o (IF total = 0 THEN << >>
                      ELSE IF ok THEN << Ev("alloc", "str_dict_index", Len(hp1)) >>
                      ELSE << Ev("alloc_failed", "str_dict_index", 0) >>)
                  \o << Ev(IF cuda_fault THEN "copy_failed" ELSE "copy",
                           "chunk_desc -> chunk_desc_dev", state.num_chunks) >>
                  \o (IF total > 0
                      THEN << Ev(IF cuda_fault THEN "kernel_failed" ELSE "kernel",
                                 "BuildStringDictionaryIndex", state.num_chunks),
                              Ev("sync", "", 0) >>
                      ELSE << >>)
  /\ pc' = "decode"
  /\ UNCHANGED << file, args, inflate, ret, cp, file_md, index_col_name,
                  col_indexes, columns_owner, columns, index_col, num_rows,
                  chunk_map, compressed_page_cnt, out >>

(***************************************************************************)
(* Lines 726-741: the value-decode kernel, the pull of page_index, the     *)
(* null counts.  The kernel sets valid_count of each page to at most the   *)
(* page's num_rows.                                                        *)
(***************************************************************************)
RECURSIVE ValidCounts(_)
ValidCounts(pages) ==
  IF pages = << >> THEN { << >> }
  ELSE { << v >> \o t : v \in 0 .. Max(Head(pages).num_rows, 0),
                        t \in ValidCounts(Tail(pages)) }

DecodePageData(pages_dev, vc) ==
  [p \in 1 .. Len(pages_dev) |-> [pages_dev[p] EXCEPT !.valid_count = vc[p]]]

\* lines 732-740
RECURSIVE null_counts(_, _, _, _, _)
null_counts(pages, i, num_chunks, map, cols) ==
  IF i > Len(pages) THEN cols
  ELSE
    LET chunk == pages[i].chunk_idx
    IN null_counts(pages, i + 1, num_chunks, map,
         IF pages[i].num_rows # 0 /\ chunk >= 0 /\ chunk < num_chunks
         THEN [cols EXCEPT ![map[chunk + 1].second + 1].null_count =
                 @ + pages[i].num_rows - pages[i].valid_count]
         ELSE cols)

DecodePages ==
  /\ pc = "decode"
  /\ IF state.total_pages > 0
     THEN IF cuda_fault
          THEN /\ mem' = mem
               /\ columns' = null_counts(mem.page_index, 1, state.num_chunks,
                                         chunk_map, columns)
               /\ log' = log \o << Ev("kernel_failed", "DecodePageData", state.total_pages),
                                   Ev("copy_failed", "page_index_dev -> page_index",
                                      state.total_pages),
                                   Ev("sync", "", 0) >>
          ELSE \E vc \in ValidCounts(mem.page_index_dev) :
                 LET decoded == DecodePageData(mem.page_index_dev, vc)
                 IN /\ mem' = [mem EXCEPT !.page_index_dev = decoded,
                                          !.page_index = decoded]
                    /\ columns' = null_counts(decoded, 1, state.num_chunks,
                                              chunk_map, columns)
                    /\ log' = log \o << Ev("kernel", "DecodePageData", state.total_pages),
                                        Ev("copy", "page_index_dev -> page_index",
                                           state.total_pages),
                                        Ev("sync", "", 0) >>
     ELSE UNCHANGED << mem, columns, log >>
  /\ pc' = "transfer"
  /\ UNCHANGED << file, args, inflate, ret, cp, file_md, index_col_name,
                  col_indexes, columns_owner, index_col, num_rows, chunk_map,
                  compressed_page_cnt, state, heap, out, faults, cuda_fault >>

(***************************************************************************)
(* Lines 743-753: release the owner, write the output arguments, succeed.  *)
(***************************************************************************)
Transfer ==
  /\ pc = "transfer"
  /\ columns_owner' = gdf_columns_release(columns_owner)
  /\ out' = [data |-> TRUE, num_cols_out |-> num_columns,
             num_rows_out |-> num_rows,
             index_col |-> IF index_col # -1 THEN index_col ELSE out.index_col,
             written |-> {"data", "num_cols_out", "num_rows_out"}
                         \cup (IF index_col # -1 THEN {"index_col"} ELSE {})]
  /\ Return("GDF_SUCCESS")
  /\ UNCHANGED << file, args, inflate, cp, file_md, index_col_name,
                  col_indexes, columns, index_col, num_rows, chunk_map,
                  compressed_page_cnt, state, mem, heap, log, faults,
                  cuda_fault >>

Unwind ==
  /\ pc = "return"
  /\ pc' = "done"
  /\ LET n == gdf_columns_dtor_count(columns_owner)
         ptrs == ColumnBuffers(columns, n) \o parquet_state_dtor(state, mem)
     IN /\ heap' = FreeAll(heap, ptrs)
        /\ log' = log \o FreeEvents(heap, ptrs)
        /\ columns' = [i \in 1 .. Len(columns) |->
                         IF i <= n THEN [columns[i] EXCEPT !.frees = @ + 1]
                         ELSE columns[i]]
  /\ columns_owner' =
       [columns_owner EXCEPT !.array_frees =
          IF columns_owner.constructed /\ columns_owner.columns THEN @ + 1 ELSE @]
  /\ UNCHANGED << file, args, inflate, ret, cp, file_md, index_col_name, col_indexes,
                  index_col, num_rows, chunk_map, compressed_page_cnt, state,
                  mem, out, faults, cuda_fault >>

Next ==
  \/ LoadFile \/ CheckMagic \/ CheckFooter
  \/ ParseMetadata \/ PrintMetadataFault
  \/ SelectColumns
  \/ InitColumns \/ InitColumnsFault
  \/ AllocChunks \/ BuildChunks
  \/ HeaderPass1 \/ CountPages \/ HeaderPass2 \/ CountCompressed
  \/ Decompress \/ AllocColumnData \/ BuildDictionaries \/ DecodePages
  \/ Transfer
  \/ Unwind

Spec == Init /\ [][Next]_vars

(***************************************************************************)
(* Vocabulary of the properties.  The call has returned when the           *)
(* destructors have run (pc = "done"); pc = "aborted" is a run that        *)
(* stopped inside the call and never returned.                             *)
(***************************************************************************)
Returned == pc = "done"
Succeeded == pc = "done" /\ ret = "GDF_SUCCESS"
Failed == pc = "done" /\ ret # "GDF_SUCCESS"

TransientKinds ==
  {"chunk_desc", "chunk_desc_dev", "compressed_data", "page_index",
   "page_index_dev", "inflate_in", "inflate_in_dev", "inflate_out",
   "inflate_out_dev", "decompressed_pages", "str_dict_index"}

ColumnKinds == {"column_data", "column_valid"}

BuffersOf(kinds) == { b \in 1 .. Len(heap) : heap[b].kind \in kinds }

ValidMagic ==
  /\ file.raw /\ file.raw_size >= SizeofFileHeader + SizeofFileEnder
  /\ file.hdr_magic = PARQUET_MAGIC /\ file.end_magic = PARQUET_MAGIC

PastEnvelope == pc \notin {"load_file", "check_magic", "check_footer"}

\* the footer-length check let the file through
FooterAccepted == PastEnvelope /\ (pc = "parse" \/ cp.init)

SelectedName(md, c) ==
  to_dot_string(md.row_groups[1].columns[c + 1].meta_data.path_in_schema)

(***************************************************************************)
(* C1.  Output columns are handed over all-or-nothing.  When read_parquet  *)
(* has returned a non-success code, no output field of the caller (data,   *)
(* num_cols_out, num_rows_out, index_col) has been written, and every      *)
(* gdf_column created during the call, with its data and validity          *)
(* buffers, has been freed once.  When it has returned success with        *)
(* columns, all of them are the caller's: the outputs are written, the     *)
(* owner is empty after release(), and its destructor freed no column, no  *)
(* column buffer and not the column array.                                 *)
(***************************************************************************)
C1_AllOrNothing ==
  /\ Failed =>
       /\ out.written = {} /\ ~out.data
       /\ \A i \in 1 .. Len(columns) : columns[i].frees = 1
       /\ \A b \in BuffersOf(ColumnKinds) : heap[b].frees = 1
       /\ columns_owner.constructed => columns_owner.array_frees = 1
  /\ (Succeeded /\ Len(columns) > 0) =>
       /\ out.data /\ out.num_cols_out = Len(columns)
       /\ {"data", "num_cols_out", "num_rows_out"} \subseteq out.written
       /\ columns_owner.num_columns = 0 /\ ~columns_owner.columns
       /\ \A i \in 1 .. Len(columns) : columns[i].frees = 0
       /\ \A b \in BuffersOf(ColumnKinds) : heap[b].frees = 0
       /\ columns_owner.array_frees = 0

\* a failure return after the columns and some of their buffers exist
C1_Witness ==
  /\ Failed
  /\ Len(columns) > 1
  /\ columns[1].data # NULL /\ columns[1].frees = 1
  /\ heap[columns[1].data.buf].frees = 1

(***************************************************************************)
(* C2.  Every transient buffer acquired during the call (chunk descriptor  *)
(* host and device arrays, each chunk's staged bytes, page-info host and   *)
(* device arrays, the four decompression staging buffers, the decompressed *)
(* data, the dictionary index) has been released exactly once when the     *)
(* call has returned, whatever the exit path; no buffer is ever released   *)
(* twice; and every pointer the teardown is about to release is null or a  *)
(* buffer that was allocated and is still live.                            *)
(***************************************************************************)
C2_TransientsReleasedOnce ==
  /\ \A b \in 1 .. Len(heap) : heap[b].frees <= 1
  /\ Returned => \A b \in BuffersOf(TransientKinds) : heap[b].frees = 1
  /\ pc = "return" =>
       LET ptrs == parquet_state_dtor(state, mem)
       IN /\ \A k \in 1 .. Len(ptrs) :
               \/ ptrs[k] = NULL
               \/ /\ ptrs[k].buf \in BuffersOf(TransientKinds)
                  /\ ptrs[k].ofs = 0
                  /\ heap[ptrs[k].buf].frees = 0
          /\ \A j, k \in 1 .. Len(ptrs) :
               (j # k /\ ptrs[j] # NULL) => ptrs[j] # ptrs[k]
          /\ \A b \in BuffersOf(TransientKinds) :
               heap[b].frees = 0 => \E k \in 1 .. Len(ptrs) : ptrs[k].buf = b

\* a return after staged chunk bytes, staging buffers and decompressed data
C2_Witness ==
  /\ Returned
  /\ \E b \in 1 .. Len(heap) : heap[b].kind = "compressed_data" /\ heap[b].frees = 1
  /\ \E b \in 1 .. Len(heap) : heap[b].kind = "inflate_in_dev" /\ heap[b].frees = 1
  /\ \E b \in 1 .. Len(heap) : heap[b].kind = "decompressed_pages" /\ heap[b].frees = 1

(***************************************************************************)
(* C3.  After a successful read that selected at least one column, the     *)
(* number of columns returned to the caller is the number of selected      *)
(* columns, and the row count of every output column is the file's total   *)
(* row count in the file metadata.                                         *)
(***************************************************************************)
C3_CountAndRows ==
  (Succeeded /\ out.data) =>
    /\ out.num_cols_out = Len(select_columns(file.md, args))
    /\ Len(columns) = out.num_cols_out
    /\ \A i \in 1 .. Len(columns) : columns[i].size = file.md.num_rows

\* a success over two row groups, where a row group is not the whole file
C3_Witness ==
  /\ Succeeded /\ out.data
  /\ Len(file.md.row_groups) = 2
  /\ file.md.row_groups[1].num_rows # file.md.num_rows
  /\ out.num_cols_out >= 1

(***************************************************************************)
(* C4.  For every i, output column i has the dot-joined name and the       *)
(* mapped value type of the i-th column of the Column Selector's result:   *)
(* the output columns are the selected columns in selection order.         *)
(* The code reads col_indexes[i] after col_indexes.clear(), so this does   *)
(* not hold of every outcome of the build.                                 *)
(***************************************************************************)
C4_NamesAndTypes ==
  (Succeeded /\ out.data) =>
    LET sel == select_columns(file.md, args)
    IN \A i \in 1 .. Len(columns) :
         /\ columns[i].col_name = SelectedName(file.md, sel[i])
         /\ columns[i].dtype = new_gdf_column(file.md, sel[i]).dtype

(***************************************************************************)
(* C5.  After a successful read, the null count of every output column is  *)
(* its row count minus the sum of the valid counts of the pages of its     *)
(* chunks (page -> chunk by chunk_idx, chunk -> column by chunk_map), and  *)
(* is at most its row count.  Stated of runs in which no allocation and no *)
(* copy failed and every selected column has a chunk in every row group.   *)
(* The host page_index is never filled from the device before line 681     *)
(* pushes it over the device's, so a compressed file breaks this.          *)
(***************************************************************************)
RECURSIVE ValidCountOfColumn(_, _, _)
ValidCountOfColumn(pages, map, k) ==
  IF pages = << >> THEN 0
  ELSE ValidCountOfColumn(Tail(pages), map, k)
       + (IF Head(pages).chunk_idx >= 0 /\ Head(pages).chunk_idx < Len(map)
             /\ map[Head(pages).chunk_idx + 1].second = k
          THEN Head(pages).valid_count ELSE 0)

\* the run took no failure, its columns are the selected ones, and every
\* selected column has its chunk in every row group
C5_CleanRun ==
  /\ faults = 0
  /\ C4_NamesAndTypes
  /\ state.num_chunks = Len(columns) * Len(file_md.row_groups)
  /\ \A i \in 1 .. Len(columns) :
       \A r \in 1 .. Len(file_md.row_groups) :
         \E c \in 1 .. Len(chunk_map) :
           chunk_map[c].first[1] = r /\ chunk_map[c].second = i - 1

C5_NullCounts ==
  (Succeeded /\ out.data /\ C5_CleanRun) =>
    \A i \in 1 .. Len(columns) :
      /\ columns[i].null_count =
           columns[i].size - ValidCountOfColumn(mem.page_index, chunk_map, i - 1)
      /\ columns[i].null_count <= columns[i].size

BadEnvelope ==
  /\ file.raw /\ file.raw_size >= SizeofFileHeader + SizeofFileEnder
  /\ \/ file.hdr_magic # PARQUET_MAGIC
     \/ file.end_magic # PARQUET_MAGIC
     \/ file.footer_len > file.raw_size - 8
     \/ file.footer_len <= 0

C7_FormatErrorFirst ==
  BadEnvelope =>
    /\ ~cp.init /\ ~cp.read
    /\ heap = << >> /\ log = << >> /\ ~columns_owner.constructed
    /\ PastEnvelope => (pc \in {"return", "done"} /\ ret = "GDF_FILE_ERROR")

\* valid magic, a footer length past fileSize - 8, and the call has returned
C7_Witness ==
  /\ Returned /\ ValidMagic
  /\ file.footer_len > file.raw_size - 8
  /\ ret = "GDF_FILE_ERROR"

(***************************************************************************)
(* C8.  For every file with valid leading and trailing magic, the footer   *)
(* length is accepted if and only if 0 < footerLen <= fileSize - 12 (the   *)
(* footer may not reach into the 4-byte header), and on acceptance the     *)
(* parser is given the bytes [fileSize - footerLen - 8, fileSize - 8).     *)
(***************************************************************************)
C8_FooterBoundAmended ==
  (ValidMagic /\ PastEnvelope) =>
    /\ FooterAccepted <=>
         (0 < file.footer_len /\ file.footer_len <= file.raw_size - 12)
    /\ cp.init =>
         /\ cp.start = file.raw_size - file.footer_len - 8
         /\ cp.start + cp.len = file.raw_size - 8

\* the accepted boundary value: footerLen = fileSize - 12, handed to the parser
C8_Witness ==
  /\ ValidMagic /\ cp.init
  /\ file.footer_len = file.raw_size - 12
  /\ cp.start = SizeofFileHeader

\* C8 as written: accepted if and only if 0 < footerLen <= fileSize - 8
C8_FooterBoundOriginal ==
  (ValidMagic /\ PastEnvelope) =>
    /\ FooterAccepted <=>
         (0 < file.footer_len /\ file.footer_len <= file.raw_size - 8)
    /\ cp.init =>
         /\ cp.start = file.raw_size - file.footer_len - 8
         /\ cp.start + cp.len = file.raw_size - 8

(***************************************************************************)
(* C9.  When the metadata parser rejects the footer bytes (cp.read fails)  *)
(* or schema initialisation fails, read_parquet returns a failure code and *)
(* never goes on to column selection, chunk building or accelerator work.  *)
(* Lines 409-414 only print the two results.                               *)
(***************************************************************************)
C9_ParserRejectionStops ==
  (cp.read /\ (~file.read_ok \/ ~file.schema_ok)) =>
    /\ pc \in {"return", "done"}
    /\ ret # "GDF_SUCCESS"
    /\ heap = << >> /\ ~columns_owner.constructed

(***************************************************************************)
(* C10.  An allocation failure at any phase aborts the read: no kernel is  *)
(* invoked after it, and when the call has returned the code is not        *)
(* success and teardown has run.  Lines 529-534, 617-621 and 703 do not    *)
(* test the result of the allocation.                                      *)
(***************************************************************************)
C10_AllocFailureAborts ==
  \A k \in 1 .. Len(log) :
    log[k][1] = "alloc_failed" =>
      /\ \A j \in k + 1 .. Len(log) : log[j][1] # "kernel"
      /\ Returned => ret # "GDF_SUCCESS"

(***************************************************************************)
(* C11.  If the status of any page collected from the decompression kernel *)
(* is not success (0), read_parquet returns a failure code, never          *)
(* GDF_SUCCESS.  Lines 670-674 only print the status.                      *)
(***************************************************************************)
C11_DecompressStatusFails ==
  (Returned /\ \E j \in 1 .. Len(inflate.out) : inflate.out[j].status # 0)
    => ret # "GDF_SUCCESS"

(***************************************************************************)
(* C12.  The number of chunk descriptors built never exceeds the capacity  *)
(* rowGroups x selectedColumns and no descriptor or chunk_map slot at or   *)
(* beyond the capacity is written; when more matching column chunks are    *)
(* found than there are slots the read fails, so a successful read has one *)
(* descriptor per match found.  Lines 537-539 only print "Too many         *)
(* chunks" and drop the chunk.                                             *)
(***************************************************************************)
RECURSIVE MatchesFound(_, _, _)
MatchesFound(md, cols, slots) ==
  IF slots = << >> THEN 0
  ELSE MatchesFound(md, cols, Tail(slots))
       + (IF MatchColumn(cols,
                         to_dot_string(md.row_groups[Head(slots)[1]]
                                         .columns[Head(slots)[2]].meta_data.path_in_schema),
                         0) # -1
          THEN 1 ELSE 0)

C12_CapacityIsHardError ==
  /\ state.num_chunks <= state.max_num_chunks
  /\ Len(mem.chunk_desc) <= state.max_num_chunks
  /\ Len(chunk_map) <= state.max_num_chunks
  /\ (Succeeded /\ out.data) =>
       state.num_chunks = MatchesFound(file_md, columns, Slots(file_md))
  /\ (Returned /\ \E k \in 1 .. Len(log) : log[k] = Ev("print", "Too many chunks", 0))
       => ret # "GDF_SUCCESS"

(***************************************************************************)
(* C13.  If a selected column chunk uses a codec that is neither           *)
(* uncompressed nor one of g_supportedCodecs (GZIP, SNAPPY), the read      *)
(* fails, and that chunk's pages are never given to the value-decode       *)
(* kernel.  Lines 584-607 count only the supported codecs; a chunk of any  *)
(* other codec is left as it is and decoded as if it were uncompressed.    *)
(***************************************************************************)
UnsupportedCodecChunk ==
  \E c \in 1 .. Len(chunk_map) :
    ChunkCodec(file_md, chunk_map, c) \notin {"UNCOMPRESSED", "GZIP", "SNAPPY"}

C13_UnsupportedCodecFails ==
  UnsupportedCodecChunk =>
    /\ Returned => ret # "GDF_SUCCESS"
    /\ \A k \in 1 .. Len(log) :
         ~(log[k][1] = "kernel" /\ log[k][2] = "DecodePageData")

(***************************************************************************)
(* C14.  to_dtype lets the converted (logical) type decide when it is one  *)
(* it knows, falls back to the physical type otherwise, and maps every     *)
(* other combination (INT96 without a known logical type) to GDF_invalid;  *)
(* and a selected column that maps to GDF_invalid makes read_parquet fail  *)
(* during chunk building, so no output column has that type.  The type is  *)
(* stored at 471-472 and never tested: lines 513-521 only read it for the  *)
(* type length.                                                            *)
(***************************************************************************)
ExpectedDtype(schema) ==
  LET l == schema.converted_type
      p == schema.type
  IN CASE l \in {"UINT_8", "INT_8"} -> "GDF_INT8"
       [] l \in {"UINT_16", "INT_16"} -> "GDF_INT16"
       [] l = "DATE" -> "GDF_DATE32"
       [] l \in {"TIMESTAMP_MILLIS", "TIMESTAMP_MICROS"} -> "GDF_DATE64"
       [] OTHER ->
          CASE p = "BOOLEAN" -> "GDF_INT8" [] p = "INT32" -> "GDF_INT32"
            [] p = "INT64" -> "GDF_INT64" [] p = "FLOAT" -> "GDF_FLOAT32"
            [] p = "DOUBLE" -> "GDF_FLOAT64"
            [] p \in {"BYTE_ARRAY", "FIXED_LEN_BYTE_ARRAY"} -> "GDF_STRING"
            [] OTHER -> "GDF_invalid"

C14_InvalidTypeFails ==
  /\ \A i \in 1 .. Len(columns) :
       \E c \in 1 .. Len(file_md.row_groups[1].columns) :
         LET col == file_md.row_groups[1].columns[c]
         IN /\ columns[i].col_name = to_dot_string(col.meta_data.path_in_schema)
            /\ columns[i].dtype = ExpectedDtype(file_md.schema[col.schema_idx + 1])
  /\ (\E i \in 1 .. Len(columns) : columns[i].dtype = "GDF_invalid") =>
       /\ pc \in {"alloc_chunks", "build_chunks", "return", "done"}
       /\ Returned => (ret # "GDF_SUCCESS" /\ ~out.data)

(***************************************************************************)
(* C15.  When the file has no row group, or its first row group has no     *)
(* column, read_parquet returns GDF_DATASET_EMPTY: it does not stop inside *)
(* the call, writes no output field and allocates nothing.  print_metadata *)
(* (line 182, called at 416 before the test at 418-424) reads              *)
(* file_md.row_groups[0] even when there is no row group.                  *)
(***************************************************************************)
EmptyDataset ==
  /\ cp.read
  /\ \/ file_md.row_groups = << >>
     \/ Len(file_md.row_groups[1].columns) = 0

C15_EmptyDatasetCode ==
  EmptyDataset =>
    /\ pc # "aborted"
    /\ pc \in {"select", "return", "done"}
    /\ pc \in {"return", "done"} => ret = "GDF_DATASET_EMPTY"
    /\ out.written = {} /\ ~out.data
    /\ heap = << >> /\ ~columns_owner.constructed

(***************************************************************************)
(* C16.  When an allow-list is given and neither it nor the index column   *)
(* name matches a column of row group 0, read_parquet returns GDF_SUCCESS  *)
(* with an empty result: the caller finds num_cols_out = 0 and no data,    *)
(* and nothing was allocated, copied or launched.  The return at 448-451   *)
(* leaves every output field as the caller passed it in.                   *)
(***************************************************************************)
EmptySelection ==
  /\ cp.read /\ ~args.use_cols_null
  /\ max_num_columns_of(file_md) > 0
  /\ select_columns(file_md, args) = << >>

C16_EmptySelectionResult ==
  (EmptySelection /\ pc \notin {"parse", "select", "aborted"}) =>
    /\ pc \in {"return", "done"} /\ ret = "GDF_SUCCESS"
    /\ out.num_cols_out = 0 /\ ~out.data
    /\ heap = << >> /\ ~columns_owner.constructed
    /\ \A k \in 1 .. Len(log) : log[k][1] = "parse"

(***************************************************************************)
(* C17.  total_pages is the sum over the chunk descriptors of data pages   *)
(* plus dictionary pages as the host reads them back after header-decode   *)
(* pass 1.  The page-info array, host and device, is allocated at most     *)
(* once per read, with exactly that many entries, only after the pull and  *)
(* the synchronize of pass 1, and nothing allocates or resizes it again.   *)
(***************************************************************************)
RECURSIVE SumPageCounts(_)
SumPageCounts(chunks) ==
  IF chunks = << >> THEN 0
  ELSE Head(chunks).num_data_pages + Head(chunks).num_dict_pages
       + SumPageCounts(Tail(chunks))

PageIndexKinds == {"page_index", "page_index_dev"}

\* CountPages has acted and the read went on
PagesCounted ==
  pc \in {"header_pass2", "count_compressed", "decompress",
          "alloc_column_data", "build_dictionaries", "decode", "transfer"}

C17_PageIndexAllocatedOnce ==
  /\ PagesCounted => state.total_pages = SumPageCounts(mem.chunk_desc)
  /\ \A kind \in PageIndexKinds :
       /\ Cardinality(BuffersOf({kind})) <= 1
       /\ Cardinality({k \in 1 .. Len(log) :
                         log[k][1] \in {"alloc", "alloc_failed"} /\ log[k][2] = kind}) <= 1
  /\ \A b \in BuffersOf(PageIndexKinds) :
       /\ heap[b].size = state.total_pages
       /\ heap[b].size = SumPageCounts(mem.chunk_desc)
       /\ heap[b].size > 0
  /\ \A k \in 1 .. Len(log) :
       (log[k][1] \in {"alloc", "alloc_failed"} /\ log[k][2] \in PageIndexKinds) =>
         \E j \in 3 .. k - 1 :
           /\ log[j] = Ev("sync", "", 0)
           /\ log[j - 1][1] = "copy" /\ log[j - 1][2] = "chunk_desc_dev -> chunk_desc"
           /\ log[j - 2] = Ev("kernel", "DecodePageHeaders", state.num_chunks)
  /\ (state.page_index # NULL \/ state.page_index_dev # NULL) =>
       /\ state.page_index_dev.buf \in BuffersOf({"page_index_dev"})
       /\ state.page_index # NULL => state.page_index.buf \in BuffersOf({"page_index"})

\* pass 2 is about to run on an array sized for data and dictionary pages
C17_Witness ==
  /\ pc = "header_pass2"
  /\ state.total_pages >= 3
  /\ \E c \in 1 .. Len(mem.chunk_desc) : mem.chunk_desc[c].num_dict_pages > 0
  /\ BuffersOf({"page_index"}) # {} /\ BuffersOf({"page_index_dev"}) # {}

(***************************************************************************)
(* C18.  When every chunk uses a supported codec, the size of the one      *)
(* decompressed-data buffer is the sum of the uncompressed sizes, as       *)
(* header-decode pass 2 reports them, of all pages of the GZIP and SNAPPY  *)
(* chunks.  Stated of runs in which no allocation and no copy failed.      *)
(* Line 596 takes the sizes from the host page_index, which pass 2 never   *)
(* filled.                                                                 *)
(***************************************************************************)
RECURSIVE CompressedPagesBytes(_)
CompressedPagesBytes(c) ==
  IF c > Len(chunk_map) THEN 0
  ELSE (IF ChunkCodec(file_md, chunk_map, c) \in {"GZIP", "SNAPPY"}
        THEN SumField(StagedBytes(heap, mem.chunk_desc[c]), "uncompressed_page_size")
        ELSE 0)
       + CompressedPagesBytes(c + 1)

C18_DecompressedBufferSize ==
  (faults = 0 /\ ~UnsupportedCodecChunk) =>
    /\ Cardinality(BuffersOf({"decompressed_pages"})) <= 1
    /\ \A b \in BuffersOf({"decompressed_pages"}) :
         heap[b].size = CompressedPagesBytes(1)

(***************************************************************************)
(* C19.  Once the dictionary index has been set up, every string chunk     *)
(* with a dictionary page owns a sub-range of the index array whose length *)
(* is the value count of the chunk's first page as header decoding         *)
(* reported it; the sub-ranges follow one another in chunk order without   *)
(* overlap, and the array is as long as the sum of those value counts.     *)
(* Stated of runs in which no allocation and no copy failed.  Lines 696    *)
(* and 713 take the value counts from the host page_index, which header    *)
(* decoding never filled.                                                  *)
(***************************************************************************)
Pass2Pages == FillPages(heap, mem.chunk_desc, 1, mem.page_index_dev)

DictionariesBuilt == pc \in {"decode", "transfer"} /\ faults = 0

C19_DictionaryIndexRanges ==
  DictionariesBuilt =>
    LET before(c) == str_indices_before(file_md, chunk_map, mem.chunk_desc,
                                        Pass2Pages, c)
        total == before(state.num_chunks + 1)
    IN /\ state.total_str_indices = total
       /\ total > 0 =>
            /\ state.str_dict_index # NULL
            /\ heap[state.str_dict_index.buf].kind = "str_dict_index"
            /\ heap[state.str_dict_index.buf].size = total * SizeofStrDesc
       /\ \A c \in 1 .. state.num_chunks :
            HasStrDict(file_md, chunk_map, mem.chunk_desc, c) =>
              /\ before(c + 1) - before(c)
                   = Pass2Pages[MaxPagesBefore(mem.chunk_desc, c) + 1].num_values
              /\ mem.chunk_desc[c].str_dict_index
                   = Ptr(state.str_dict_index.buf,
                         state.str_dict_index.ofs + before(c))

(***************************************************************************)
(* C20.  Whenever the host is about to read a page-info field that the     *)
(* header-decode kernel writes - the uncompressed sizes for decompression  *)
(* sizing (596), sizes and data pointers for decompression staging         *)
(* (637-645), the value counts for dictionary sizing (696, 713) - the host *)
(* page-info array has been pulled from the accelerator, and the pull      *)
(* synchronized, after the second DecodePageHeaders launch.                *)
(* dispatch_chunk_op pulls the chunk descriptors only; the one pull of     *)
(* page_index is at line 729, after the value-decode kernel.               *)
(***************************************************************************)
HostReadsPageInfo ==
  \/ /\ pc = "count_compressed"
     /\ \E c \in 1 .. state.num_chunks :
          /\ ChunkCodec(file_md, chunk_map, c) \in {"GZIP", "SNAPPY"}
          /\ mem.chunk_desc[c].max_num_pages > 0
  \/ /\ pc = "decompress"
     /\ state.num_compressed_pages > 0
  \/ /\ pc = "build_dictionaries"
     /\ \E c \in 1 .. state.num_chunks :
          HasStrDict(file_md, chunk_map, mem.chunk_desc, c)

PageInfoPulledAfterPass2 ==
  \E i, j, k, l \in 1 .. Len(log) :
    /\ i < j /\ j < k /\ k < l
    /\ log[i][1] = "kernel" /\ log[i][2] = "DecodePageHeaders"
    /\ log[j][1] = "kernel" /\ log[j][2] = "DecodePageHeaders"
    /\ log[k][1] = "copy" /\ log[k][2] = "page_index_dev -> page_index"
    /\ log[l][1] = "sync"

C20_ReadsAfterPull == HostReadsPageInfo => PageInfoPulledAfterPass2

(***************************************************************************)
(* C21.  Header decoding is a two-pass protocol.  The first                *)
(* DecodePageHeaders launch sees every descriptor with a null page pointer *)
(* and a page capacity of 0; the page-info arrays are allocated only after *)
(* that launch, the pull of the descriptors and a synchronize, and only    *)
(* when the page total is positive; the second launch comes after the      *)
(* allocation and sees chunk c's page pointer at the sum of the data and   *)
(* dictionary page counts of the chunks before c, with capacity equal to   *)
(* its own count, so that the sub-ranges are disjoint, contiguous in chunk *)
(* order and cover the array.  There is no third launch.                   *)
(***************************************************************************)
LogIndexes(ev, what) ==
  { i \in 1 .. Len(log) : log[i][1] = ev /\ log[i][2] = what }

HeaderLaunches == LogIndexes("kernel", "DecodePageHeaders")

PageIndexAllocs ==
  LogIndexes("alloc", "page_index_dev") \cup LogIndexes("alloc", "page_index")

NoPageInfoAttached(chunks) ==
  \A c \in 1 .. Len(chunks) :
    chunks[c].page_info = NULL /\ chunks[c].max_num_pages = 0

PageInfoPartitioned(chunks) ==
  /\ \A c \in 1 .. Len(chunks) :
       /\ chunks[c].page_info
            = Ptr(state.page_index_dev.buf, PagesBefore(chunks, c))
       /\ chunks[c].max_num_pages
            = chunks[c].num_data_pages + chunks[c].num_dict_pages
  /\ state.page_index_dev.buf \in BuffersOf({"page_index_dev"})
  /\ PagesBefore(chunks, Len(chunks) + 1) = heap[state.page_index_dev.buf].size

C21_TwoPassProtocol ==
  /\ Cardinality(HeaderLaunches) <= 2
  /\ pc = "header_pass1" =>
       /\ HeaderLaunches = {}
       /\ Len(mem.chunk_desc) = state.num_chunks
       /\ NoPageInfoAttached(mem.chunk_desc)
  /\ Cardinality(HeaderLaunches) = 1 => NoPageInfoAttached(mem.chunk_desc_dev)
  /\ \A a \in PageIndexAllocs :
       /\ state.total_pages > 0
       /\ \E i \in HeaderLaunches :
            \E j \in LogIndexes("copy", "chunk_desc_dev -> chunk_desc") :
              \E k \in LogIndexes("sync", "") :
                /\ i < j /\ j < k /\ k < a
                /\ \A i2 \in HeaderLaunches : i2 < a => i2 = i
  /\ Cardinality(HeaderLaunches) = 2 =>
       /\ Cardinality(PageIndexAllocs) = 2
       /\ \A a \in PageIndexAllocs : \E i \in HeaderLaunches : a < i
       /\ Len(mem.chunk_desc_dev) = state.num_chunks
       /\ PageInfoPartitioned(mem.chunk_desc_dev)

\* pass 2 has run over two chunks or more, one of them with a dictionary page
C21_Witness ==
  /\ pc = "count_compressed"
  /\ Cardinality(HeaderLaunches) = 2
  /\ state.num_chunks >= 2
  /\ \E c \in 1 .. state.num_chunks :
       mem.chunk_desc_dev[c].page_info.ofs > 0

(***************************************************************************)
(* C22.  When DecodePageData is about to be launched, every page-info      *)
(* entry on the accelerator holds what header-decode pass 2 wrote, except  *)
(* that the data pointer of each page of a GZIP or SNAPPY chunk points     *)
(* into the decompressed buffer.  Stated of runs in which no allocation    *)
(* and no copy failed.  Line 681 copies the whole host page_index, which   *)
(* was never pulled after pass 2, over the accelerator's.                  *)
(***************************************************************************)
PageOfCompressedChunk(p) ==
  \E c \in 1 .. state.num_chunks :
    /\ ChunkCodec(file_md, chunk_map, c) \in {"GZIP", "SNAPPY"}
    /\ p > MaxPagesBefore(mem.chunk_desc, c)
    /\ p <= MaxPagesBefore(mem.chunk_desc, c) + mem.chunk_desc[c].max_num_pages

KernelWrittenFields ==
  {"uncompressed_page_size", "compressed_page_size", "num_values", "chunk_row",
   "num_rows", "chunk_idx", "flags", "encoding"}

C22_DevicePageInfoAtDecode ==
  (pc = "decode" /\ faults = 0 /\ ~cuda_fault) =>
    \A p \in 1 .. Len(mem.page_index_dev) :
      /\ \A f \in KernelWrittenFields : mem.page_index_dev[p][f] = Pass2Pages[p][f]
      /\ IF PageOfCompressedChunk(p)
         THEN /\ state.decompressed_pages # NULL
              /\ mem.page_index_dev[p].compressed_page_data.buf
                   = state.decompressed_pages.buf
         ELSE mem.page_index_dev[p].compressed_page_data
                = Pass2Pages[p].compressed_page_data

(***************************************************************************)
(* C23.  Every kernel that takes the chunk descriptors runs on an          *)
(* accelerator array equal to the host array in all num_chunks entries.    *)
(* Each DecodePageHeaders and BuildStringDictionaryIndex launch is         *)
(* directly preceded by a push of num_chunks descriptors; each             *)
(* DecodePageHeaders launch that does not fault is directly followed by    *)
(* the pull of num_chunks descriptors and a synchronize, after which the   *)
(* two arrays are equal; and the two arrays are equal when                 *)
(* BuildStringDictionaryIndex has run and when DecodePageData is about to  *)
(* run.                                                                    *)
(***************************************************************************)
PushOfChunks == Ev("copy", "chunk_desc -> chunk_desc_dev", state.num_chunks)
PullOfChunks == Ev("copy", "chunk_desc_dev -> chunk_desc", state.num_chunks)

MirrorsEqual ==
  /\ Len(mem.chunk_desc) = state.num_chunks
  /\ mem.chunk_desc_dev = mem.chunk_desc

DictionaryLaunches == LogIndexes("kernel", "BuildStringDictionaryIndex")

SomeStrDict ==
  \E c \in 1 .. state.num_chunks : HasStrDict(file_md, chunk_map, mem.chunk_desc, c)

C24_DictionaryKernelOrder ==
  /\ \A i \in DictionaryLaunches :
       /\ \E a \in LogIndexes("alloc", "str_dict_index") : a < i
       /\ log[i - 1] = PushOfChunks
       /\ i + 1 <= Len(log) /\ log[i + 1][1] = "sync"
       /\ \A d \in LogIndexes("kernel", "DecodePageData") : i + 1 < d
       /\ \A c \in 1 .. state.num_chunks :
            HasStrDict(file_md, chunk_map, mem.chunk_desc, c) =>
              /\ mem.chunk_desc_dev[c].str_dict_index.buf = state.str_dict_index.buf
              /\ state.str_dict_index.buf \in BuffersOf({"str_dict_index"})
  /\ state.total_pages = 0 => LogIndexes("kernel", "DecodePageData") = {}

C24_DictionaryKernelEngaged ==
  /\ (DictionariesBuilt => (DictionaryLaunches # {} <=> SomeStrDict))
  /\ (faults = 0 => C24_DictionaryKernelOrder)

(***************************************************************************)
(* C25.  alloc_chunks, alloc_pages, alloc_dictionaries and                 *)
(* dispatch_chunk_op return GDF_SUCCESS when every step inside them        *)
(* succeeds: a read that got as far as allocating the chunk descriptors    *)
(* and in which no allocation, copy, kernel or synchronize failed is not   *)
(* aborted by the checks around these operations; it transfers ownership   *)
(* and returns GDF_SUCCESS.  The four functions have no return statement   *)
(* (lines 251-276).                                                        *)
(***************************************************************************)
NoStepFailed ==
  /\ faults = 0
  /\ ~cuda_fault
  /\ \A i \in 1 .. Len(log) :
       log[i][1] \notin {"alloc_failed", "copy_failed", "kernel_fault",
                         "kernel_failed", "sync_failed", "memset_failed"}

C25_PhaseOpsReturnSuccess ==
  (Returned /\ NoStepFailed /\ LogIndexes("alloc", "chunk_desc") # {}) =>
    /\ ret = "GDF_SUCCESS"
    /\ "data" \in out.written

(***************************************************************************)
(* C26.  Decompression staging gives every page of a GZIP or SNAPPY chunk  *)
(* one slice of the decompressed buffer, as long as the page's             *)
(* uncompressed size from header-decode pass 2: the slices follow one      *)
(* another without gap or overlap in staging order (GZIP before SNAPPY,    *)
(* then chunk, then page), each lies inside the allocated buffer, the      *)
(* per-codec page counts add up to num_compressed_pages, and no more       *)
(* entries are staged than the staging arrays hold.  Stated of runs in     *)
(* which no allocation and no copy failed.  Lines 637-645 size and place   *)
(* the slices by the host page_index, which pass 2 never filled.           *)
(***************************************************************************)
StagingOrder ==
  staged_pages(file_md, chunk_map, mem.chunk_desc, compressed_page_cnt, 1)

\* the staging itself: counts, array lengths, order of the staged pages
C26_StagingCounts ==
  /\ SumSeq(compressed_page_cnt) = state.num_compressed_pages
  /\ Len(inflate.in) = Len(StagingOrder)
  /\ Len(inflate.in) <= state.num_compressed_pages
  /\ \A b \in BuffersOf({"inflate_in", "inflate_in_dev", "inflate_out",
                         "inflate_out_dev"}) :
       Len(inflate.in) <= heap[b].size /\ Len(inflate.out) <= heap[b].size
  /\ \A j \in 1 .. Len(StagingOrder) : PageOfCompressedChunk(StagingOrder[j])
  /\ \A p \in 1 .. Len(mem.page_index) :
       PageOfCompressedChunk(p) =>
         Cardinality({ j \in 1 .. Len(StagingOrder) : StagingOrder[j] = p }) = 1
  /\ \A j \in 1 .. Len(StagingOrder) - 1 :
       \/ StagingOrder[j] < StagingOrder[j + 1]
       \/ \E c, d \in 1 .. state.num_chunks :
               /\ ChunkCodec(file_md, chunk_map, c) = "GZIP"
               /\ ChunkCodec(file_md, chunk_map, d) = "SNAPPY"
               /\ StagingOrder[j] > MaxPagesBefore(mem.chunk_desc, c)
               /\ StagingOrder[j] <= MaxPagesBefore(mem.chunk_desc, c)
                                       + mem.chunk_desc[c].max_num_pages
               /\ StagingOrder[j + 1] > MaxPagesBefore(mem.chunk_desc, d)
               /\ StagingOrder[j + 1] <= MaxPagesBefore(mem.chunk_desc, d)
                                           + mem.chunk_desc[d].max_num_pages

\* the slices as the code lays them out, each as long as its dstSize
C26_SlicesBackToBack ==
  /\ \A j \in 1 .. Len(inflate.in) :
       /\ inflate.in[j].dstDevice.buf = state.decompressed_pages.buf
       /\ inflate.in[j].dstDevice.ofs
            = (IF j = 1 THEN 0
               ELSE inflate.in[j - 1].dstDevice.ofs + inflate.in[j - 1].dstSize)
       /\ inflate.in[j].dstDevice.ofs + inflate.in[j].dstSize
            <= heap[state.decompressed_pages.buf].size

C26_DecompressedSlices ==
  (pc = "alloc_column_data" /\ faults = 0 /\ Len(inflate.in) > 0) =>
    /\ C26_StagingCounts
    /\ C26_SlicesBackToBack
    /\ \A j \in 1 .. Len(inflate.in) :
         inflate.in[j].dstSize = Pass2Pages[StagingOrder[j]].uncompressed_page_size

(***************************************************************************)
(* C27.  When read_parquet has returned, ~parquet_state has released the   *)
(* buffers of the pipeline state that were allocated, each once and none   *)
(* that was never allocated, in this order: the dictionary index, the      *)
(* decompressed buffer, the host and the device page-info array, the       *)
(* staged bytes of the chunks, the host and the device descriptor array.   *)
(* That is the reverse of the order of acquisition, except for the staged  *)
(* bytes of the chunks, which are released in the order they were          *)
(* acquired, first chunk first (lines 283-287).                            *)
(***************************************************************************)
StateKinds ==
  {"chunk_desc", "chunk_desc_dev", "compressed_data", "page_index",
   "page_index_dev", "decompressed_pages", "str_dict_index"}

\* the buffers of the pipeline state named by the log's events of one sort
RECURSIVE StateBuffers(_, _)
StateBuffers(ev, i) ==
  IF i > Len(log) THEN << >>
  ELSE (IF log[i][1] = ev /\ log[i][2] \in StateKinds
        THEN << log[i][3] >> ELSE << >>)
       \o StateBuffers(ev, i + 1)

Acquired == StateBuffers("alloc", 1)
Released == StateBuffers("free", 1)

ReverseSeq(s) == [i \in 1 .. Len(s) |-> s[Len(s) + 1 - i]]

IsStaged(b) == heap[b].kind = "compressed_data"
NotStaged(b) == heap[b].kind # "compressed_data"

\* the order the claim states: the exact reverse of the acquisitions
C27_ReverseOrderOriginal ==
  Returned => Released = ReverseSeq(Acquired)

C27_TeardownOrderAmended ==
  Returned =>
    /\ SelectSeq(Released, NotStaged) = ReverseSeq(SelectSeq(Acquired, NotStaged))
    /\ SelectSeq(Released, IsStaged) = SelectSeq(Acquired, IsStaged)
    /\ \A i, j \in 1 .. Len(Released) :
         (i < j /\ IsStaged(Released[i]) /\ NotStaged(Released[j])) =>
           heap[Released[j]].kind \in {"chunk_desc", "chunk_desc_dev"}
    /\ \A i, j \in 1 .. Len(Released) :
         (i < j /\ NotStaged(Released[i]) /\ IsStaged(Released[j])) =>
           heap[Released[i]].kind \notin {"chunk_desc", "chunk_desc_dev"}
    /\ \A b \in 1 .. Len(heap) :
         heap[b].kind \in StateKinds => heap[b].frees = 1

\* a teardown over two staged chunks or more and the page-info arrays
C27_Witness ==
  /\ Returned
  /\ Len(SelectSeq(Released, IsStaged)) >= 2
  /\ \E i \in 1 .. Len(Released) : heap[Released[i]].kind = "page_index"
====
